---- MODULE Spec2Model ----
(***************************************************************************)
(* Couchbase persistence components of pip-services3-couchbase-go: the     *)
(* identifiable persistence (key operations over one shared bucket, with   *)
(* the collection tag "_c"), and the filtered queries of the persistence   *)
(* base.  Strings are TLA+ strings, so that a bucket key is the real       *)
(* concatenation CollectionName + id.                                      *)
(***************************************************************************)
EXTENDS Integers, Sequences, FiniteSets, TLC

\* ------------------------------------------------------------------ bounds
\* Total number of mutations the bucket accepts.
MaxWrites == 2
\* Number of identifiers the id generator hands out.
MaxGen == 2
\* Number of concurrent callers of UpdatePartially.
MaxProcs == 2
\* Longest id list given to GetListByIds.
MaxIds == 2
\* Number of times a connection component is opened.
MaxOpens == 2

\* ------------------------------------------------------------- the inputs
\* Persistence components sharing one bucket: collection name and the kind
\* of their prototype (map, struct, pointer to struct).
PMap == [coll |-> "a", kind |-> "map"]
PStruct == [coll |-> "ab", kind |-> "struct"]
PPtr == [coll |-> "a", kind |-> "ptr"]
Persistences == {PMap, PStruct, PPtr}

\* Caller-supplied ids; "a" + "bc" and "ab" + "c" are the same bucket key.
Ids == {"c", "bc"}
\* The fields of the record type (Dummy: id, key, content).
StructFields == {"id", "key", "content"}
Contents == {"x", "y"}
\* Records a caller passes in; id "" is the empty identity.
Items == [id : Ids \cup {""}, key : {"k"}, content : Contents]
\* Merge maps given to UpdatePartially.
Datas == {[content |-> "z"], [key |-> "z"]}

\* Optional values: no value, or one value.
None == <<>>
Some(x) == <<x>>

NoErr == "nil"
ErrKeyNotFound == "ErrKeyNotFound"
ErrKeyExists == "ErrKeyExists"
\* What the store answers to a request with an empty key.
ErrInvalidArgs == "ErrInvalidArgs"

EmptyBody == [f \in {} |-> ""]
NoDoc == [present |-> FALSE, cas |-> 0, body |-> EmptyBody]

\* cdata.IdGenerator.NextLong(): the n-th generated id.
RECURSIVE NextLong(_)
NextLong(n) == IF n <= 1 THEN "g" ELSE NextLong(n - 1) \o "g"
GenIds == {NextLong(n) : n \in 1..MaxGen}

\* The nil id (no caller id is this text).
NilId == "<nil>"

\* CouchbasePersistence.GenerateBucketId: "" for the nil id.
GenerateBucketId(p, id) == IF id = NilId THEN "" ELSE p.coll \o id

AllKeys == {GenerateBucketId(p, id) : p \in Persistences, id \in Ids \cup GenIds}

VARIABLES
    store,      \* the bucket: key -> document (present, cas, body)
    writes,     \* number of mutations the bucket has accepted
    genCount,   \* number of ids generated so far
    up,         \* UpdatePartially calls in flight: proc -> local variables
    last,       \* the last finished call: operation, arguments, results
    del,        \* the DeleteByIds call in flight or last returned
    conns,      \* the connection components: their handles and options
    opens,      \* number of cluster connects made so far
    pst,        \* the persistence component's lifecycle fields
    call,       \* the last finished lifecycle call
    rsv         \* the connection resolver: its configuration and its calls

keyVars == <<store, writes, genCount, up, last>>
lifeVars == <<conns, opens, pst, call, rsv>>
vars == <<store, writes, genCount, up, last, del, conns, opens, pst, call, rsv>>

\* ------------------------------------------------------ the bucket (gocb)
\* A document's CAS is its version: every mutation of a key gives it a value
\* the key never had before (the slot keeps it when the document is removed).
\* Bucket.Get(key, &buf): (cas, err) and the value read.
BucketGet(s, key) ==
    IF key = ""
    THEN [err |-> ErrInvalidArgs, cas |-> 0, value |-> EmptyBody]
    ELSE IF s[key].present
    THEN [err |-> NoErr, cas |-> s[key].cas, value |-> s[key].body]
    ELSE [err |-> ErrKeyNotFound, cas |-> 0, value |-> EmptyBody]

\* An Insert that overwrites an existing document.
BucketInsertOverwrites(s, key, value) ==
    [err |-> NoErr,
     store |-> [s EXCEPT ![key] = [present |-> TRUE, cas |-> s[key].cas + 1, body |-> value]]]

\* Bucket.Insert(key, value, 0): fails when the key exists.
BucketInsert(s, key, value) ==
    IF s[key].present
    THEN [err |-> ErrKeyExists, store |-> s]
    ELSE [err |-> NoErr,
          store |-> [s EXCEPT ![key] = [present |-> TRUE, cas |-> s[key].cas + 1, body |-> value]]]

\* Bucket.Upsert(key, value, 0): inserts or replaces.
BucketUpsert(s, key, value) ==
    [err |-> NoErr,
     store |-> [s EXCEPT ![key] = [present |-> TRUE, cas |-> s[key].cas + 1, body |-> value]]]

\* A Replace that ignores the CAS token it is given.
BucketReplaceNoCas(s, key, value, cas) ==
    IF ~s[key].present
    THEN [err |-> ErrKeyNotFound, store |-> s]
    ELSE [err |-> NoErr,
          store |-> [s EXCEPT ![key] = [present |-> TRUE, cas |-> s[key].cas + 1, body |-> value]]]

\* Bucket.Replace(key, value, cas, 0): fails when the key is absent, or when
\* cas is not 0 and differs from the document's CAS.
BucketReplace(s, key, value, cas) ==
    IF ~s[key].present
    THEN [err |-> ErrKeyNotFound, store |-> s]
    ELSE IF cas # 0 /\ cas # s[key].cas
    THEN [err |-> ErrKeyExists, store |-> s]
    ELSE [err |-> NoErr,
          store |-> [s EXCEPT ![key] = [present |-> TRUE, cas |-> s[key].cas + 1, body |-> value]]]

\* A Remove that answers success and leaves the document in place.
BucketRemoveKeeps(s, key) == [err |-> NoErr, store |-> s]

\* Bucket.Remove(key, 0).
BucketRemove(s, key) ==
    IF s[key].present
    THEN [err |-> NoErr, store |-> [s EXCEPT ![key] = [NoDoc EXCEPT !.cas = s[key].cas]]]
    ELSE [err |-> ErrKeyNotFound, store |-> s]

\* --------------------------------------------------- record conversions
SetField(m, f, v) == (f :> v) @@ m
DeleteField(m, f) == [x \in DOMAIN m \ {f} |-> m[x]]

\* The kind of value the conversions see: CloneObject and GetProtoPtr hand
\* them a struct value also when the prototype is a pointer.
IsMap(p) == p.kind = "map"

\* json.Unmarshal into a struct: known fields only, zero value when missing.
UnmarshalStruct(m) == [f \in StructFields |-> IF f \in DOMAIN m THEN m[f] ELSE ""]

\* json.Marshal of a struct and json.Unmarshal into a map: every field of
\* the struct under its json name.
MarshalStruct(item) == [f \in StructFields |-> item[f]]

\* CouchbasePersistence.ConvertFromPublic: the wire form, tagged with "_c"
\* (a map is tagged in place, a struct goes through json into a map).
ConvertFromPublic(p, item) ==
    IF IsMap(p)
    THEN SetField(item, "_c", p.coll)
    ELSE SetField(MarshalStruct(item), "_c", p.coll)

\* A ConvertToPublic that leaves the tag in place.
ConvertToPublicKeepTag(p, item) == item

\* CouchbasePersistence.ConvertToPublic: maps lose "_c", structs are left.
ConvertToPublic(p, item) ==
    IF IsMap(p) THEN DeleteField(item, "_c") ELSE item

\* GetProtoPtr + json.Marshal/Unmarshal: a document decoded into a fresh
\* prototype instance.
Decode(p, buf) == IF IsMap(p) THEN buf ELSE UnmarshalStruct(buf)

\* CouchbasePersistence.GetConvResult.
GetConvResult(p, doc) == ConvertToPublic(p, doc)

\* CouchbasePersistence.ConvertFromMap.
ConvertFromMap(p, buf) == GetConvResult(p, Decode(p, buf))

\* refl.ObjectWriter.SetProperties as UpdatePartially uses it: a map takes
\* every given field, a struct the fields it has.
SetProperties(p, obj, data) ==
    IF IsMap(p)
    THEN [f \in DOMAIN obj \cup DOMAIN data |->
            IF f \in DOMAIN data THEN data[f] ELSE obj[f]]
    ELSE [f \in DOMAIN obj |-> IF f \in DOMAIN data THEN data[f] ELSE obj[f]]

\* cmpersist.GenerateObjectId: an empty id is replaced by a generated one.
GenerateObjectId(item, n) ==
    IF item.id = "" THEN [item EXCEPT !.id = NextLong(n + 1)] ELSE item

\* ------------------------------------------------------------------ state
Idle == [pc |-> "idle", p |-> PMap, id |-> "", data |-> EmptyBody,
         cas |-> 0, buf |-> EmptyBody]

NoCall == [op |-> "none", p |-> PMap, id |-> "", key |-> "", item |-> EmptyBody,
           data |-> EmptyBody, ids |-> <<>>, filter |-> <<>>,
           res |-> None, err |-> NoErr, before |-> NoDoc, cas |-> 0,
           raw |-> <<>>, total |-> 0, wrote |-> None,
           paging |-> [skip |-> -1, take |-> -1, total |-> FALSE],
           offset |-> None, limit |-> 0, isNil |-> FALSE, after |-> EmptyBody,
           reqs |-> 0]

\* The document under a key; no document under the empty key.
DocAt(s, key) == IF key \in DOMAIN s THEN s[key] ELSE NoDoc

\* ------------------------------------------------- lifecycle: the values
\* An error value: type, code, message (the pieces of its text, in order)
\* and cause (none, or one error).
Err(type, code, msg) == [type |-> type, code |-> code, msg |-> msg, cause |-> <<>>]
NilErr == Err("nil", "", <<>>)
WithCause(err, cause) == [err EXCEPT !.cause = <<cause>>]

\* Failures the collaborators of CouchbaseConnection.Open can report.
ResolveError == Err("ConfigError", "NO_CONNECTION", <<"Connection is not configured">>)
ConnectError == Err("error", "", <<"invalid connection string">>)
CreateExists == Err("clientError", "", <<"Bucket with given ", "name already exist", "s">>)
CreateEmpty == Err("clientError", "", <<>>)
CreateOther == Err("clientError", "", <<"RAM quota specified is too large">>)
OpenBucketError == Err("error", "", <<"authentication error">>)
IndexError == Err("error", "", <<"index service is not available">>)

\* What the collaborators answer during one Open.
\* What the collaborators answer during one Open: any answer to the bucket
\* creation, and at most one failure among the other calls.
Outcomes ==
    {out \in [resolve : {NilErr, ResolveError},
              connect : {NilErr, ConnectError},
              create : {NilErr, CreateExists, CreateEmpty, CreateOther},
              open : {NilErr, OpenBucketError},
              index : {NilErr, IndexError}] :
        Cardinality({f \in {"resolve", "connect", "open", "index"} : out[f] # NilErr}) <= 1}

\* The options.* section of a configuration: a value, or not given.
ConfigOptions ==
    [auto_create : {<<>>, <<TRUE>>, <<FALSE>>}, auto_index : {<<>>, <<TRUE>>, <<FALSE>>}]

\* NewCouchbaseConnection: no handles (0 is nil), empty Options (a missing
\* option reads as false).
NewCouchbaseConnection ==
    [Connection |-> 0, Bucket |-> 0, autoCreate |-> FALSE, autoIndex |-> FALSE]

\* CouchbaseConnection.Configure: defaultConfig fills what config leaves out
\* (auto_create false, auto_index true) and the section overrides Options.
ConnectionConfigure(cn, cfg) ==
    [cn EXCEPT !.autoCreate = IF cfg.auto_create = <<>> THEN FALSE ELSE cfg.auto_create[1],
               !.autoIndex = IF cfg.auto_index = <<>> THEN TRUE ELSE cfg.auto_index[1]]

\* An IsOpen that answers yes for every connection.
ConnectionIsOpenAlways(cn) == TRUE

\* CouchbaseConnection.IsOpen.
ConnectionIsOpen(cn) == cn.Connection # 0

\* The connection a container injects ("shared") and the one the persistence
\* creates for itself ("own").
ConnIds == {"shared", "own"}

\* NewCouchbasePersistence: no connection, not opened, no config.
NewCouchbasePersistence ==
    [Connection |-> "nil", localConnection |-> FALSE, opened |-> FALSE,
     Cluster |-> 0, Bucket |-> 0, config |-> <<>>]

\* No lifecycle call yet.
NoLifeCall ==
    [op |-> "none", c |-> "nil", bucket |-> "", err |-> NilErr, steps |-> <<>>,
     before |-> [c \in ConnIds |-> NewCouchbaseConnection],
     pbefore |-> NewCouchbasePersistence]

\* ------------------------------------- CouchbaseConnectionResolver: values
\* The connection endpoints a configuration may hold: at most MaxEndpoints.
MaxEndpoints == 2

\* Extra connection parameters: a map from some option keys to text.
NoOptions == [k \in {} |-> ""]
OptionMaps == {NoOptions, [k \in {"a"} |-> "1"],
               [k \in {"a", "b"} |-> IF k = "a" THEN "1" ELSE ""]}

\* One configured endpoint (ConnectionParams): a missing key reads as "" and
\* a missing port as 0.
UriEndpoints ==
    {[uri |-> u, host |-> "", port |-> 0, database |-> "", options |-> NoOptions] :
        u \in {"couchbase://u1/db", "couchbase://u2"}}
BadEndpoints ==
    {[uri |-> "", host |-> h, port |-> p, database |-> "", options |-> NoOptions] :
        h \in {"", "host1"}, p \in {0, 8092}} \ 
    {[uri |-> "", host |-> "host1", port |-> 8092, database |-> "", options |-> NoOptions]}
GoodEndpoints ==
    [uri : {""}, host : {"host1", "host2"}, port : {8092},
     database : {"", "test", "db2"}, options : OptionMaps]
Endpoints == UriEndpoints \cup BadEndpoints \cup GoodEndpoints

RECURSIVE ListsOver(_, _)
ListsOver(S, n) ==
    IF n = 0 THEN {<<>>}
    ELSE LET shorter == ListsOver(S, n - 1)
         IN shorter \cup {Append(l, x) : l \in shorter, x \in S}

EndpointLists == ListsOver(Endpoints, MaxEndpoints)

\* The configured credential (CredentialParams): none, or username and
\* password, each "" when missing.
Credentials ==
    {<<>>, <<[username |-> "admin", password |-> "password123"]>>,
     <<[username |-> "", password |-> "password123"]>>}

\* What the two lookups of the base resolvers can fail with.
DiscoveryError == Err("error", "", <<"discovery service is not available">>)
StoreError == Err("error", "", <<"credential store is not available">>)

\* The outcome of a Resolve call: the parameters (none, or one) and the error.
NoRet == [done |-> FALSE, params |-> <<>>, err |-> NilErr]
Ret(params, err) == [done |-> TRUE, params |-> params, err |-> err]

\* NewCouchbaseConnectionResolver: empty base resolvers, no call made.
NewCouchbaseConnectionResolver ==
    [connections |-> <<>>, credential |-> <<>>, pc |-> "idle",
     failConn |-> FALSE, failCred |-> FALSE, finished |-> <<>>,
     resolved |-> <<>>, errConn |-> NilErr, looked |-> <<>>, errCred |-> NilErr,
     ret |-> NoRet, prev |-> NoRet]

\* strconv.FormatInt(n, 10) for n >= 0.
Digits == <<"0", "1", "2", "3", "4", "5", "6", "7", "8", "9">>
RECURSIVE FormatInt(_)
FormatInt(n) ==
    IF n < 10 THEN Digits[n + 1] ELSE FormatInt(n \div 10) \o Digits[(n % 10) + 1]

\* validateConnection whatever the endpoint holds: always valid.
ValidateConnectionNot(connection) == NilErr

\* validateConnection.
ValidateConnection(connection) ==
    IF connection.uri # "" THEN NilErr
    ELSE IF connection.host = ""
    THEN Err("ConfigError", "NO_HOST", <<"Connection host is not set">>)
    ELSE IF connection.port = 0
    THEN Err("ConfigError", "NO_PORT", <<"Connection port is not set">>)
    ELSE NilErr

\* validateConnections: the first endpoint's error, in configured order.
ValidateConnections(connections) ==
    IF connections = <<>>
    THEN Err("ConfigError", "NO_CONNECTION", <<"Database connection is not set">>)
    ELSE LET bad == {i \in DOMAIN connections :
                        ValidateConnection(connections[i]) # NilErr}
         IN IF bad = {} THEN NilErr
            ELSE ValidateConnection(connections[CHOOSE i \in bad : \A j \in bad : i <= j])

\* composeConnection, the hosts: "host:port" of every endpoint, by commas.
RECURSIVE ComposeHosts(_)
ComposeHosts(connections) ==
    IF connections = <<>> THEN ""
    ELSE LET n == Len(connections)
             hosts == ComposeHosts(SubSeq(connections, 1, n - 1))
             connection == connections[n]
             host == IF connection.port > 0
                     THEN connection.host \o ":" \o FormatInt(connection.port)
                     ELSE connection.host
         IN (IF hosts # "" THEN hosts \o "," ELSE hosts) \o host

\* A database taken from the first endpoint alone.
ComposeDatabaseOfFirst(connections) ==
    IF connections # <<>> /\ connections[1].database # ""
    THEN "/" \o connections[1].database ELSE ""

\* composeConnection, the database: the first non-empty one, after a "/".
ComposeDatabase(connections) ==
    LET named == {i \in DOMAIN connections : connections[i].database # ""}
    IN IF named = {} THEN ""
       ELSE "/" \o connections[CHOOSE i \in named : \A j \in named : i <= j].database

\* composeConnection, the options: the endpoints' maps appended in order (a
\* later endpoint's value replaces an earlier one's), without the keys uri,
\* host, port, database, username and password.
RECURSIVE ComposeOptions(_)
ComposeOptions(connections) ==
    IF connections = <<>> THEN NoOptions
    ELSE LET n == Len(connections)
         IN connections[n].options @@ ComposeOptions(SubSeq(connections, 1, n - 1))

\* The orders in which options.Keys() can list the keys of a map.
KeyOrders(options) ==
    {keys \in [1..Cardinality(DOMAIN options) -> DOMAIN options] :
        \A i, j \in DOMAIN keys : i # j => keys[i] # keys[j]}

\* composeConnection, the query string over the keys in the order given.
RECURSIVE ComposeParams(_, _)
ComposeParams(options, keys) ==
    IF keys = <<>> THEN ""
    ELSE LET n == Len(keys)
             params == ComposeParams(options, SubSeq(keys, 1, n - 1))
             value == options[keys[n]]
         IN (IF params # "" THEN params \o "&" ELSE params) \o keys[n]
                \o (IF value # "" THEN "=" \o value ELSE "")

\* A first uri that is looked for among the valid endpoints only.
FirstUriNone(connections) == ""

\* composeConnection, the early return: the first non-empty uri, or "".
FirstUri(connections) ==
    LET given == {i \in DOMAIN connections : connections[i].uri # ""}
    IN IF given = {} THEN ""
       ELSE connections[CHOOSE i \in given : \A j \in given : i <= j].uri

\* composeConnection: the parameters for the looked-up endpoints and
\* credential, with options.Keys() answering `keys`.
ComposeConnection(connections, credential, keys) ==
    LET username == IF credential # <<>> THEN credential[1].username ELSE ""
        password == IF credential # <<>> /\ username # ""
                    THEN credential[1].password ELSE ""
        options == ComposeOptions(connections)
        params == ComposeParams(options, keys)
        uri == IF FirstUri(connections) # "" THEN FirstUri(connections)
               ELSE "couchbase://" \o ComposeHosts(connections)
                        \o ComposeDatabase(connections)
                        \o (IF params # "" THEN "?" \o params ELSE "")
    IN [Uri |-> uri, Username |-> username, Password |-> password]

\* A Resolve that reports the credential lookup's error first.
ResolveResultCredFirst(errConn, errCred, composed) ==
    IF errCred # NilErr THEN Ret(<<>>, errCred)
    ELSE IF errConn # NilErr THEN Ret(<<>>, errConn)
    ELSE Ret(<<composed>>, NilErr)

\* Resolve after wg.Wait(): the endpoint error, else the credential error,
\* else the composed parameters.
ResolveResult(errConn, errCred, composed) ==
    IF errConn # NilErr THEN Ret(<<>>, errConn)
    ELSE IF errCred # NilErr THEN Ret(<<>>, errCred)
    ELSE Ret(<<composed>>, NilErr)

\* No DeleteByIds call yet.
NoDel == [pc |-> "idle", p |-> PMap, ids |-> <<>>, faults |-> <<>>, tasks |-> <<>>,
          errTyp |-> NoErr, errDat |-> NoErr, count |-> 0, wg |-> 0,
          before |-> [k \in AllKeys |-> NoDoc], after |-> [k \in AllKeys |-> NoDoc],
          ret |-> [typ |-> NoErr, dat |-> NoErr]]

Init ==
    /\ store = [k \in AllKeys |-> NoDoc]
    /\ writes = 0
    /\ genCount = 0
    /\ up = [q \in 1..MaxProcs |-> Idle]
    /\ last = NoCall
    /\ del = NoDel
    /\ conns = [c \in ConnIds |-> NewCouchbaseConnection]
    /\ opens = 0
    /\ pst = NewCouchbasePersistence
    /\ call = NoLifeCall
    /\ rsv = NewCouchbaseConnectionResolver

\* The inputs a write may take within the bounds.
CanWrite(item) ==
    /\ writes < MaxWrites
    /\ item.id = "" => genCount < MaxGen

\* --------------------------------------------- IdentifiableCouchbasePersistence
\* A CloneObject that hands back the caller's own object.
CloneObjectShared(item) == [obj |-> "caller", val |-> item]

\* cmpersist.CloneObject: a new object with the fields of the caller's.
CloneObject(item) == [obj |-> "copy", val |-> item]

\* The caller's object when Create / Set / Update returns: it changes only
\* if newItem is that object, which then holds what the call left in newItem
\* (a map is tagged in place and untagged again after a successful write; a
\* struct or a map that was not untagged keeps the generated id).
CallerAfter(p, item, newItem, err, public) ==
    IF CloneObject(item).obj = "caller"
    THEN IF IsMap(p)
         THEN (IF err = NoErr THEN public ELSE ConvertFromPublic(p, newItem))
         ELSE newItem
    ELSE item

\* What a finished Create / Set / Update leaves in `last`.
WriteCall(op, p, item, newItem, objectId, err, public) ==
    [NoCall EXCEPT !.op = op, !.p = p, !.id = newItem.id, !.key = objectId,
                   !.item = item, !.before = store[objectId], !.err = err,
                   !.res = IF err = NoErr THEN Some(public) ELSE None,
                   !.after = CallerAfter(p, item, newItem, err, public)]

\* Create: clone, generate the id, tag, Insert, untag.
Create(p, item) ==
    LET newItem == GenerateObjectId(CloneObject(item).val, genCount)
        insertedItem == ConvertFromPublic(p, newItem)
        objectId == GenerateBucketId(p, newItem.id)
        ins == BucketInsert(store, objectId, insertedItem)
        public == ConvertToPublic(p, IF IsMap(p) THEN insertedItem ELSE newItem)
    IN  /\ CanWrite(item)
        /\ store' = ins.store
        /\ writes' = IF ins.err = NoErr THEN writes + 1 ELSE writes
        /\ genCount' = IF item.id = "" THEN genCount + 1 ELSE genCount
        /\ last' = WriteCall("Create", p, item, newItem, objectId, ins.err, public)
        /\ UNCHANGED up

\* Set: clone, generate the id, tag, Upsert, untag.
Set(p, item) ==
    LET newItem == GenerateObjectId(CloneObject(item).val, genCount)
        setItem == ConvertFromPublic(p, newItem)
        objectId == GenerateBucketId(p, newItem.id)
        ups == BucketUpsert(store, objectId, setItem)
        public == ConvertToPublic(p, IF IsMap(p) THEN setItem ELSE newItem)
    IN  /\ CanWrite(item)
        /\ store' = ups.store
        /\ writes' = IF ups.err = NoErr THEN writes + 1 ELSE writes
        /\ genCount' = IF item.id = "" THEN genCount + 1 ELSE genCount
        /\ last' = WriteCall("Set", p, item, newItem, objectId, ups.err, public)
        /\ UNCHANGED up

\* Update: clone, generate the id, tag, Replace without CAS, untag.
Update(p, item) ==
    LET newItem == GenerateObjectId(CloneObject(item).val, genCount)
        updateItem == ConvertFromPublic(p, newItem)
        objectId == GenerateBucketId(p, newItem.id)
        rep == BucketReplace(store, objectId, updateItem, 0)
        public == ConvertToPublic(p, IF IsMap(p) THEN updateItem ELSE newItem)
    IN  /\ CanWrite(item)
        /\ store' = rep.store
        /\ writes' = IF rep.err = NoErr THEN writes + 1 ELSE writes
        /\ genCount' = IF item.id = "" THEN genCount + 1 ELSE genCount
        /\ last' = WriteCall("Update", p, item, newItem, objectId, rep.err, public)
        /\ UNCHANGED up

\* UpdatePartially, run without interruption: Get with the CAS, decode into
\* a prototype instance, SetProperties, Replace with the CAS, convert.
UpdatePartially(p, id, data) ==
    LET objectId == GenerateBucketId(p, id)
        g == BucketGet(store, objectId)
        newItem == SetProperties(p, Decode(p, g.value), data)
        rep == BucketReplace(store, objectId, newItem, g.cas)
        err == IF g.err # NoErr THEN g.err ELSE rep.err
    IN  IF id = NilId
        THEN /\ last' = [NoCall EXCEPT !.op = "UpdatePartially", !.p = p, !.id = id,
                                !.data = data]
             /\ UNCHANGED <<store, writes, genCount, up>>
        ELSE
        /\ writes < MaxWrites
        /\ store' = IF g.err # NoErr THEN store ELSE rep.store
        /\ writes' = IF err = NoErr THEN writes + 1 ELSE writes
        /\ last' = [NoCall EXCEPT !.op = "UpdatePartially", !.p = p, !.id = id,
                        !.key = objectId, !.data = data, !.before = store[objectId],
                        !.cas = g.cas, !.err = err,
                        !.reqs = IF g.err # NoErr THEN 1 ELSE 2,
                        !.res = IF err = NoErr
                                THEN Some(GetConvResult(p, newItem)) ELSE None]
        /\ UNCHANGED <<genCount, up>>

\* Lists of distinct ids of length 1..MaxIds.
IdLists ==
    {ids \in UNION {[1..n -> Ids] : n \in 1..MaxIds} :
        \A i, j \in DOMAIN ids : ids[i] = ids[j] => i = j}

\* CouchbasePersistence.GenerateBucketIds.
GenerateBucketIds(p, ids) == [i \in DOMAIN ids |-> GenerateBucketId(p, ids[i])]

\* The entries of a bulk get that succeeded, in request order.
RECURSIVE FoundValues(_, _)
FoundValues(s, keys) ==
    IF keys = <<>> THEN <<>>
    ELSE LET g == BucketGet(s, Head(keys))
         IN  (IF g.err = NoErr THEN <<g.value>> ELSE <<>>) \o FoundValues(s, Tail(keys))

\* GetListByIds: one bulk get; entries that failed are skipped.
GetListByIds(p, ids) ==
    LET objectIds == GenerateBucketIds(p, ids)
        found == FoundValues(store, objectIds)
    IN  /\ last' = [NoCall EXCEPT !.op = "GetListByIds", !.p = p, !.ids = ids,
                        !.raw = found,
                        !.res = [i \in DOMAIN found |-> ConvertFromMap(p, found[i])]]
        /\ UNCHANGED <<store, writes, genCount, up>>

\* History: the record returned by the call that finished just before, when
\* that call was a successful Create, Set or Update of id through p.
JustWritten(p, id) ==
    IF /\ last.op \in {"Create", "Set", "Update"}
       /\ last.err = NoErr
       /\ last.p = p
       /\ last.id = id
    THEN last.res ELSE None

\* GetOneById: Get; key-not-found is (nil, nil).
GetOneById(p, id) ==
    LET objectId == GenerateBucketId(p, id)
        g == BucketGet(store, objectId)
    IN  /\ last' = [NoCall EXCEPT !.op = "GetOneById", !.p = p, !.id = id,
                        !.key = objectId, !.before = DocAt(store, objectId),
                        !.reqs = 1,
                        !.err = IF g.err = ErrKeyNotFound THEN NoErr ELSE g.err,
                        !.raw = IF g.err = NoErr THEN <<g.value>> ELSE <<>>,
                        !.res = IF g.err = NoErr
                                THEN Some(ConvertFromMap(p, g.value)) ELSE None,
                        !.wrote = JustWritten(p, id)]
        /\ UNCHANGED <<store, writes, genCount, up>>

\* DeleteById: Get, then Remove; returns the document read.
DeleteById(p, id) ==
    LET objectId == GenerateBucketId(p, id)
        g == BucketGet(store, objectId)
        r == BucketRemove(store, objectId)
        stop == g.err # NoErr \/ DOMAIN g.value = {}
    IN  /\ store' = IF stop THEN store ELSE r.store
        /\ last' = [NoCall EXCEPT !.op = "DeleteById", !.p = p, !.id = id,
                        !.key = objectId, !.before = DocAt(store, objectId),
                        !.reqs = IF stop THEN 1 ELSE 2,
                        !.err = IF stop THEN g.err
                                ELSE IF r.err = ErrKeyNotFound THEN NoErr ELSE r.err,
                        !.raw = IF stop THEN <<>> ELSE <<g.value>>,
                        !.res = IF stop \/ r.err # NoErr
                                THEN None ELSE Some(ConvertFromMap(p, g.value))]
        /\ UNCHANGED <<writes, genCount, up>>

\* The ids a caller can name: its own, and those generated so far.
KnownIds == Ids \cup {NextLong(n) : n \in 1..genCount}

Next ==
    \/ \E p \in Persistences, item \in Items : Create(p, item) /\ UNCHANGED <<del, lifeVars>>
    \/ \E p \in Persistences, item \in Items : Set(p, item) /\ UNCHANGED <<del, lifeVars>>
    \/ \E p \in Persistences, item \in Items : Update(p, item) /\ UNCHANGED <<del, lifeVars>>
    \/ \E p \in Persistences, id \in Ids, data \in Datas : UpdatePartially(p, id, data) /\ UNCHANGED <<del, lifeVars>>
    \/ \E p \in Persistences, id \in KnownIds : GetOneById(p, id) /\ UNCHANGED <<del, lifeVars>>
    \/ \E p \in Persistences, id \in KnownIds : DeleteById(p, id) /\ UNCHANGED <<del, lifeVars>>

Spec == Init /\ [][Next]_vars

\* The key-based calls, also with the nil id.
NextNil ==
    \/ \E p \in Persistences, item \in Items : Create(p, item) /\ UNCHANGED <<del, lifeVars>>
    \/ \E p \in Persistences, id \in Ids \cup {NilId}, data \in Datas :
            UpdatePartially(p, id, data) /\ UNCHANGED <<del, lifeVars>>
    \/ \E p \in Persistences, id \in KnownIds \cup {NilId} : GetOneById(p, id) /\ UNCHANGED <<del, lifeVars>>
    \/ \E p \in Persistences, id \in KnownIds \cup {NilId} : DeleteById(p, id) /\ UNCHANGED <<del, lifeVars>>

SpecNil == Init /\ [][NextNil]_vars

\* Bulk reads over a bucket filled by Create and Set.
NextList ==
    \/ \E p \in Persistences, item \in Items : Create(p, item) /\ UNCHANGED <<del, lifeVars>>
    \/ \E p \in Persistences, item \in Items : Set(p, item) /\ UNCHANGED <<del, lifeVars>>
    \/ \E p \in Persistences, ids \in IdLists : GetListByIds(p, ids) /\ UNCHANGED <<del, lifeVars>>

SpecList == Init /\ [][NextList]_vars

\* --------------------------------------------- concurrent UpdatePartially
\* UpdatePartially of caller q up to its Get: the CAS and the document read
\* are kept in q's local variables; a failed Get ends the call.
UpGet(q, p, id, data) ==
    LET objectId == GenerateBucketId(p, id)
        g == BucketGet(store, objectId)
    IN  /\ up[q].pc = "idle"
        /\ writes < MaxWrites
        /\ IF g.err # NoErr
           THEN /\ last' = [NoCall EXCEPT !.op = "UpdatePartially", !.p = p, !.id = id,
                                !.key = objectId, !.data = data,
                                !.before = store[objectId], !.err = g.err]
                /\ UNCHANGED up
           ELSE /\ up' = [up EXCEPT ![q] = [pc |-> "got", p |-> p, id |-> id,
                                            data |-> data, cas |-> g.cas, buf |-> g.value]]
                /\ UNCHANGED last
        /\ UNCHANGED <<store, writes, genCount>>

\* The rest of UpdatePartially of caller q: decode, SetProperties, Replace
\* with the CAS of the Get, convert.
UpReplace(q) ==
    LET c == up[q]
        objectId == GenerateBucketId(c.p, c.id)
        newItem == SetProperties(c.p, Decode(c.p, c.buf), c.data)
        rep == BucketReplace(store, objectId, newItem, c.cas)
    IN  /\ c.pc = "got"
        /\ store' = rep.store
        /\ writes' = IF rep.err = NoErr THEN writes + 1 ELSE writes
        /\ last' = [NoCall EXCEPT !.op = "UpdatePartially", !.p = c.p, !.id = c.id,
                        !.key = objectId, !.data = c.data, !.before = store[objectId],
                        !.cas = c.cas, !.err = rep.err,
                        !.res = IF rep.err = NoErr
                                THEN Some(GetConvResult(c.p, newItem)) ELSE None]
        /\ up' = [up EXCEPT ![q] = Idle]
        /\ UNCHANGED genCount

\* Callers of one collection working on one id, next to Create, Set and
\* DeleteById on it.
CasPersistences == {PMap, PPtr}
CasIds == {"c"}
CasItems == {item \in Items : item.id \in CasIds /\ item.content = "x"}

NextCas ==
    \/ \E p \in CasPersistences, item \in CasItems : Create(p, item) /\ UNCHANGED <<del, lifeVars>>
    \/ \E p \in CasPersistences, item \in CasItems : Set(p, item) /\ UNCHANGED <<del, lifeVars>>
    \/ \E p \in CasPersistences, id \in CasIds : DeleteById(p, id) /\ UNCHANGED <<del, lifeVars>>
    \/ \E q \in 1..MaxProcs, p \in CasPersistences, id \in CasIds, data \in Datas :
            UpGet(q, p, id, data) /\ UNCHANGED <<del, lifeVars>>
    \/ \E q \in 1..MaxProcs : UpReplace(q) /\ UNCHANGED <<del, lifeVars>>

SpecCas == Init /\ [][NextCas]_vars

\* ------------------------------------------------------- concurrent Create
\* Create of caller q up to its Insert: the clone, tagged, is kept in q's
\* local variables (data: the caller's item, buf: insertedItem).
CreateBegin(q, p, item) ==
    LET newItem == GenerateObjectId(CloneObject(item).val, genCount)
        insertedItem == ConvertFromPublic(p, newItem)
    IN  /\ up[q].pc = "idle"
        /\ item.id # ""
        /\ up' = [up EXCEPT ![q] = [pc |-> "cloned", p |-> p, id |-> newItem.id,
                                    data |-> item, cas |-> 0, buf |-> insertedItem]]
        /\ UNCHANGED <<store, writes, genCount, last>>

\* The rest of Create of caller q: the Insert, and the return; q keeps the
\* outcome of its call.
CreateInsert(q) ==
    LET c == up[q]
        objectId == GenerateBucketId(c.p, c.id)
        ins == BucketInsert(store, objectId, c.buf)
        public == ConvertToPublic(c.p, IF IsMap(c.p) THEN c.buf ELSE c.data)
    IN  /\ c.pc = "cloned"
        /\ writes < MaxWrites
        /\ store' = ins.store
        /\ writes' = IF ins.err = NoErr THEN writes + 1 ELSE writes
        /\ last' = WriteCall("Create", c.p, c.data, c.data, objectId, ins.err, public)
        /\ up' = [up EXCEPT ![q].pc = IF ins.err = NoErr THEN "created" ELSE "rejected"]
        /\ UNCHANGED genCount

\* Callers of one collection creating records at the same time.
NextRace ==
    \/ \E q \in 1..MaxProcs, p \in CasPersistences, item \in Items :
            CreateBegin(q, p, item) /\ UNCHANGED <<del, lifeVars>>
    \/ \E q \in 1..MaxProcs : CreateInsert(q) /\ UNCHANGED <<del, lifeVars>>

SpecRace == Init /\ [][NextRace]_vars

\* ------------------------------------------------------------ N1QL queries
\* A filter expression is the token sequence of its text: comparisons
\* field='value' joined by AND and OR.  "" is the empty sequence.
Atom(f, v) == [t |-> "atom", f |-> f, v |-> v]
And == [t |-> "AND", f |-> "", v |-> ""]
Or == [t |-> "OR", f |-> "", v |-> ""]

\* Filters a caller passes.
Filters ==
    { <<>>,
      <<Atom("content", "x")>>,
      <<Atom("key", "k"), And, Atom("content", "y")>>,
      <<Atom("content", "x"), Or, Atom("content", "y")>> }

\* Paging parameters: skip and take (-1: not given) and the total flag.
Pagings ==
    { [skip |-> -1, take |-> -1, total |-> FALSE],
      [skip |-> 1, take |-> 1, total |-> TRUE],
      [skip |-> 0, take |-> -1, total |-> TRUE] }

\* IdentifiableCouchbasePersistence.MaxPageSize as the constructor sets it.
MaxPageSize == 100

\* PagingParams.GetSkip(-1) and PagingParams.GetTake(MaxPageSize).
GetSkip(paging) == IF paging.skip < -1 THEN -1 ELSE paging.skip
GetTake(paging) ==
    IF paging.take = -1 \/ paging.take > MaxPageSize THEN MaxPageSize ELSE paging.take

\* A comparison holds of a document that has the field with that value.
Holds(atom, body) == atom.f \in DOMAIN body /\ body[atom.f] = atom.v

\* N1QL evaluates a WHERE text with AND binding tighter than OR; acc is the
\* value of the conjunction read so far.
RECURSIVE EvalWhere(_, _, _)
EvalWhere(tokens, body, acc) ==
    IF tokens = <<>> THEN acc
    ELSE LET h == Head(tokens)
         IN  CASE h.t = "atom" -> EvalWhere(Tail(tokens), body, acc /\ Holds(h, body))
               [] h.t = "AND" -> EvalWhere(Tail(tokens), body, acc)
               [] OTHER -> acc \/ EvalWhere(Tail(tokens), body, TRUE)

\* The keys of the documents a statement's WHERE selects (all documents when
\* the statement has no WHERE).
Matching(s, where) ==
    {k \in DOMAIN s : s[k].present /\ EvalWhere(where, s[k].body, TRUE)}

\* The orders in which the bucket may return a set of rows.
Orders(keys) ==
    {o \in [1..Cardinality(keys) -> keys] : \A i, j \in DOMAIN o : o[i] = o[j] => i = j}

\* OFFSET skip (when skip >= 0) LIMIT take, applied to the rows in order.
Window(rows, skip, take) ==
    LET from == IF skip >= 0 THEN skip ELSE 0
        upto == IF from + take < Len(rows) THEN from + take ELSE Len(rows)
    IN  SubSeq(rows, from + 1, upto)

\* What Bucket.ExecuteN1qlQuery answers: results and no error, or no results
\* (a nil QueryResults) and an error.
ErrQuery == "ErrQuery"
QueryOutcomes == {NoErr, ErrQuery}
\* A method called on the nil QueryResults: the goroutine panics.
ErrNilDereference == "panic: nil pointer dereference"

\* An OFFSET clause in every statement.
PageOffsetAlways(skip) == Some(IF skip >= 0 THEN skip ELSE 0)

\* GetPageByFilter's OFFSET clause: present when skip >= 0.
PageOffset(skip) == IF skip >= 0 THEN Some(skip) ELSE None

\* GetPageByFilter's WHERE text: collectionFilter [+ " AND " + filter].
PageFilter(p, filter) ==
    LET collectionFilter == <<Atom("_c", p.coll)>>
    IN  IF filter # <<>> THEN collectionFilter \o <<And>> \o filter
        ELSE collectionFilter

\* GetPageByFilter (select *, no sort): the statement, the query, the rows
\* converted, the total.
GetPageByFilter(p, filter, paging, queryErr) ==
    LET where == PageFilter(p, filter)
        skip == GetSkip(paging)
        take == GetTake(paging)
    IN  IF queryErr # NoErr
        THEN /\ last' = [NoCall EXCEPT !.op = "GetPageByFilter", !.p = p,
                                !.filter = filter, !.paging = paging,
                                !.offset = PageOffset(skip), !.limit = take,
                                !.err = queryErr, !.isNil = TRUE]
             /\ UNCHANGED <<store, writes, genCount, up>>
        ELSE
        \E order \in Orders(Matching(store, where)) :
            LET rows == Window(order, skip, take)
                items == [i \in DOMAIN rows |-> ConvertFromMap(p, store[rows[i]].body)]
            IN  /\ last' = [NoCall EXCEPT !.op = "GetPageByFilter", !.p = p,
                                !.filter = filter, !.paging = paging,
                                !.offset = PageOffset(skip), !.limit = take,
                                !.raw = [i \in DOMAIN rows |-> store[rows[i]].body],
                                !.res = items,
                                !.total = IF paging.total THEN Len(items) ELSE 0]
                /\ UNCHANGED <<store, writes, genCount, up>>

\* GetListByFilter (select *, no sort): WHERE is the caller's filter, when
\* there is one.
GetListByFilter(p, filter, queryErr) ==
    IF queryErr # NoErr
    THEN /\ last' = [NoCall EXCEPT !.op = "GetListByFilter", !.p = p, !.filter = filter,
                            !.err = queryErr, !.isNil = TRUE]
         /\ UNCHANGED <<store, writes, genCount, up>>
    ELSE
    \E order \in Orders(Matching(store, filter)) :
        /\ last' = [NoCall EXCEPT !.op = "GetListByFilter", !.p = p, !.filter = filter,
                        !.raw = [i \in DOMAIN order |-> store[order[i]].body],
                        !.res = [i \in DOMAIN order |->
                                    ConvertFromMap(p, store[order[i]].body)]]
        /\ UNCHANGED <<store, writes, genCount, up>>

\* The documents of a set of keys, in the order of the keys.
RECURSIVE BodiesOf(_, _)
BodiesOf(s, keys) ==
    IF keys = {} THEN <<>>
    ELSE LET k == CHOOSE x \in keys : TRUE
         IN  <<s[k].body>> \o BodiesOf(s, keys \ {k})

\* DeleteByFilter: DELETE FROM bucket [WHERE filter].  `raw` keeps the
\* documents the statement deleted (history).
DeleteByFilter(p, filter, queryErr) ==
    LET gone == Matching(store, filter)
    IN  IF queryErr # NoErr
        THEN /\ last' = [NoCall EXCEPT !.op = "DeleteByFilter", !.p = p,
                                !.filter = filter, !.err = queryErr]
             /\ UNCHANGED <<store, writes, genCount, up>>
        ELSE
        /\ store' = [k \in DOMAIN store |->
                        IF k \in gone THEN [NoDoc EXCEPT !.cas = store[k].cas] ELSE store[k]]
        /\ last' = [NoCall EXCEPT !.op = "DeleteByFilter", !.p = p, !.filter = filter,
                        !.raw = BodiesOf(store, gone), !.total = Cardinality(gone)]
        /\ UNCHANGED <<writes, genCount, up>>

\* The number of results of a SELECT COUNT(*) statement: the statement
\* answers one row, which holds the count.
CountResultCount(s, filter) == 1

\* A row of SELECT * FROM bucket: the document under the bucket's name.
RowOf(body) == [b \in {"test"} |-> body]

\* GetOneRandom: the count query, a random offset below its ResultCount, the
\* row query with OFFSET skip LIMIT 1, the row (or the empty map when there is
\* none) converted.
GetOneRandom(p, filter, countErr, rowErr) ==
    LET count == CountResultCount(store, filter)
        this == [NoCall EXCEPT !.op = "GetOneRandom", !.p = p, !.filter = filter]
    IN  /\ IF countErr # NoErr
           THEN last' = [this EXCEPT !.err = ErrNilDereference, !.isNil = TRUE]
           ELSE IF count = 0
           THEN last' = [this EXCEPT !.isNil = TRUE]
           ELSE \E skip \in 0..(count - 1) :
                  IF rowErr # NoErr
                  THEN last' = [this EXCEPT !.total = count, !.offset = Some(skip),
                                            !.err = rowErr, !.isNil = TRUE]
                  ELSE \E order \in Orders(Matching(store, filter)) :
                         LET rows == Window(order, skip, 1)
                             buf == IF rows = <<>> THEN EmptyBody
                                    ELSE RowOf(store[rows[1]].body)
                         IN last' = [this EXCEPT
                                        !.total = count, !.offset = Some(skip),
                                        !.raw = [i \in DOMAIN rows |-> store[rows[i]].body],
                                        !.res = Some(ConvertFromMap(p, buf))]
        /\ UNCHANGED <<store, writes, genCount, up>>

\* Queries over a bucket that two collections fill.
NextQuery ==
    \/ \E p \in Persistences, item \in Items : Create(p, item) /\ UNCHANGED <<del, lifeVars>>
    \/ \E p \in Persistences, item \in Items : Set(p, item) /\ UNCHANGED <<del, lifeVars>>
    \/ \E p \in Persistences, filter \in Filters, paging \in Pagings, queryErr \in QueryOutcomes :
            GetPageByFilter(p, filter, paging, queryErr) /\ UNCHANGED <<del, lifeVars>>
    \/ \E p \in Persistences, filter \in Filters, queryErr \in QueryOutcomes :
            GetListByFilter(p, filter, queryErr) /\ UNCHANGED <<del, lifeVars>>
    \/ \E p \in Persistences, filter \in Filters, queryErr \in QueryOutcomes :
            DeleteByFilter(p, filter, queryErr) /\ UNCHANGED <<del, lifeVars>>

SpecQuery == Init /\ [][NextQuery]_vars

\* Every query operation, over a bucket filled by Create.
NextRandom ==
    \/ \E p \in Persistences, item \in Items : Create(p, item) /\ UNCHANGED <<del, lifeVars>>
    \/ \E p \in Persistences, filter \in Filters, paging \in Pagings, queryErr \in QueryOutcomes :
            GetPageByFilter(p, filter, paging, queryErr) /\ UNCHANGED <<del, lifeVars>>
    \/ \E p \in Persistences, filter \in Filters, queryErr \in QueryOutcomes :
            GetListByFilter(p, filter, queryErr) /\ UNCHANGED <<del, lifeVars>>
    \/ \E p \in Persistences, filter \in Filters, queryErr \in QueryOutcomes :
            DeleteByFilter(p, filter, queryErr) /\ UNCHANGED <<del, lifeVars>>
    \/ \E p \in Persistences, filter \in Filters, countErr \in QueryOutcomes, rowErr \in QueryOutcomes :
            GetOneRandom(p, filter, countErr, rowErr) /\ UNCHANGED <<del, lifeVars>>

SpecRandom == Init /\ [][NextRandom]_vars

\* ------------------------------------------------------------- DeleteByIds
\* Failures of Bucket.Remove other than key-not-found; the two are error
\* values of different dynamic types.
ErrTimeout == "ErrTimeout"
ErrTmpFail == "ErrTmpFail"
RemoveOutcomes == {NoErr, ErrTimeout, ErrTmpFail}

\* For every position of an id list, what the server does with its Remove:
\* serve it, or fail it.
FaultLists(ids) == [DOMAIN ids -> RemoveOutcomes]

\* One removal goroutine before it ran.
NewTask == [pc |-> "remove", remErr |-> NoErr, tmp |-> 0]

\* DeleteByIds up to wg.Wait: count := 0, err = nil, and one goroutine per
\* id, each added to the wait group before it starts.
DelStart(p, ids, faults) ==
    /\ del.pc \in {"idle", "returned"}
    /\ del' = [NoDel EXCEPT !.pc = "waiting", !.p = p, !.ids = ids, !.faults = faults,
                    !.tasks = [i \in DOMAIN ids |-> NewTask],
                    !.wg = Len(ids), !.before = store]
    /\ UNCHANGED <<store, writes, genCount, up, last>>

\* wg.Done of task i (deferred: the goroutine's last step).
TaskDone(d, i) == [d EXCEPT !.tasks[i].pc = "done", !.wg = d.wg - 1]

\* Goroutine i: objectId := GenerateBucketId(i); Bucket.Remove(objectId, 0).
TaskRemove(i) ==
    LET objectId == GenerateBucketId(del.p, del.ids[i])
        r == IF del.faults[i] = NoErr THEN BucketRemove(store, objectId)
             ELSE [err |-> del.faults[i], store |-> store]
        d == [del EXCEPT !.tasks[i].remErr = r.err]
    IN  /\ del.pc = "waiting"
        /\ del.tasks[i].pc = "remove"
        /\ store' = r.store
        /\ del' = IF r.err # NoErr /\ r.err # ErrKeyNotFound
                  THEN [d EXCEPT !.tasks[i].pc = "errTyp"]
                  ELSE IF r.err = NoErr
                  THEN [d EXCEPT !.tasks[i].pc = "load"]
                  ELSE TaskDone(d, i)
        /\ UNCHANGED <<writes, genCount, up, last>>

\* Goroutine i: err = remErr.  err is an interface variable shared by all
\* goroutines and written without synchronisation: its type word and its
\* data word are two stores.
TaskErrTyp(i) ==
    /\ del.pc = "waiting"
    /\ del.tasks[i].pc = "errTyp"
    /\ del' = [del EXCEPT !.errTyp = del.tasks[i].remErr, !.tasks[i].pc = "errDat"]
    /\ UNCHANGED <<store, writes, genCount, up, last>>

TaskErrDat(i) ==
    /\ del.pc = "waiting"
    /\ del.tasks[i].pc = "errDat"
    /\ del' = TaskDone([del EXCEPT !.errDat = del.tasks[i].remErr], i)
    /\ UNCHANGED <<store, writes, genCount, up, last>>

\* Goroutine i: count++ on the shared counter is a load and a store.
TaskLoad(i) ==
    /\ del.pc = "waiting"
    /\ del.tasks[i].pc = "load"
    /\ del' = [del EXCEPT !.tasks[i].tmp = del.count, !.tasks[i].pc = "store"]
    /\ UNCHANGED <<store, writes, genCount, up, last>>

TaskStore(i) ==
    /\ del.pc = "waiting"
    /\ del.tasks[i].pc = "store"
    /\ del' = TaskDone([del EXCEPT !.count = del.tasks[i].tmp + 1], i)
    /\ UNCHANGED <<store, writes, genCount, up, last>>

\* wg.Wait returns when every goroutine is done; the call logs count and
\* returns err.
DelReturn ==
    /\ del.pc = "waiting"
    /\ del.wg = 0
    /\ del' = [del EXCEPT !.pc = "returned", !.after = store,
                    !.ret = [typ |-> del.errTyp, dat |-> del.errDat]]
    /\ UNCHANGED <<store, writes, genCount, up, last>>

\* Two collections fill the bucket while no DeleteByIds runs.
DelPersistences == {PMap, PStruct}
DelItems == {item \in Items : item.id # "" /\ item.content = "x"}

NextDel ==
    \/ \E p \in DelPersistences, item \in DelItems :
            del.pc # "waiting" /\ Create(p, item) /\ UNCHANGED <<del, lifeVars>>
    \/ \E p \in DelPersistences, ids \in IdLists :
            \E faults \in FaultLists(ids) : DelStart(p, ids, faults) /\ UNCHANGED lifeVars
    \/ \E i \in DOMAIN del.tasks : TaskRemove(i) /\ UNCHANGED lifeVars
    \/ \E i \in DOMAIN del.tasks : TaskErrTyp(i) /\ UNCHANGED lifeVars
    \/ \E i \in DOMAIN del.tasks : TaskErrDat(i) /\ UNCHANGED lifeVars
    \/ \E i \in DOMAIN del.tasks : TaskLoad(i) /\ UNCHANGED lifeVars
    \/ \E i \in DOMAIN del.tasks : TaskStore(i) /\ UNCHANGED lifeVars
    \/ DelReturn /\ UNCHANGED lifeVars

SpecDel == Init /\ [][NextDel]_vars

\* -------------------------------------------------- CouchbaseConnection
\* strings.Index over the pieces of a text: the position of the first piece
\* equal to sub, counted from 0, or -1.
StringsIndex(msg, sub) ==
    IF \E i \in DOMAIN msg : msg[i] = sub
    THEN (CHOOSE i \in DOMAIN msg : msg[i] = sub /\ \A j \in 1..(i - 1) : msg[j] # sub) - 1
    ELSE -1

\* One call to a collaborator and what it answered.
Step(name, err) == [step |-> name, err |-> err]

\* A return that wraps the failure into a ConnectionError.
EarlyReturnWrapped(cn, err, steps) ==
    [conn |-> cn,
     err |-> WithCause(Err("ConnectionError", "CONNECT_FAILED", <<"Connection to couchbase failed">>), err),
     steps |-> steps]

\* return resErr / return conErr: before any field is assigned.
EarlyReturn(cn, err, steps) == [conn |-> cn, err |-> err, steps |-> steps]

\* An abort that forgets the bucket only.
AbortOpenKeepsCluster(cn, err, steps) ==
    [conn |-> [cn EXCEPT !.Bucket = 0], err |-> err, steps |-> steps]

\* c.Connection = nil; c.Bucket = nil; return err.
AbortOpen(cn, err, steps) ==
    [conn |-> [cn EXCEPT !.Connection = 0, !.Bucket = 0], err |-> err, steps |-> steps]

\* A test that takes every InsertBucket error for a failure.
IsCreateFailureStrict(err) == err # NilErr

\* err != nil && err.Error() != "" && strings.Index(err.Error(), "name already exist") < 0
IsCreateFailure(err) ==
    /\ err # NilErr
    /\ err.msg # <<>>
    /\ StringsIndex(err.msg, "name already exist") < 0

\* An open-bucket failure handed on as it is.
WrapOpenBucketErrorNot(correlationId, opnErr) == opnErr

\* cerr.NewConnectionError(correlationId, "CONNECT_FAILED", ...).WithCause(opnErr)
WrapOpenBucketError(correlationId, opnErr) ==
    WithCause(Err("ConnectionError", "CONNECT_FAILED", <<"Connection to couchbase failed">>), opnErr)

\* An index rule that looks at auto_index only.
NeedsIndexAutoOnly(newBucket, autoIndex) == autoIndex

\* if newBucket || autoIndex
NeedsIndex(newBucket, autoIndex) == newBucket \/ autoIndex

\* CouchbaseConnection.Open on the connection cn, with the collaborators
\* answering as in out and h the handle a successful connect returns: the
\* connection afterwards, the error returned and the calls made.
ConnectionOpen(cn, out, h) ==
    LET s0 == <<Step("Resolve", out.resolve)>>
        s1 == Append(s0, Step("Connect", out.connect))
        c1 == [cn EXCEPT !.Connection = h]
        autocreate == c1.autoCreate
        s2 == IF autocreate THEN Append(s1, Step("InsertBucket", out.create)) ELSE s1
        newBucket == autocreate /\ out.create = NilErr
        s3 == Append(s2, Step("OpenBucket", out.open))
        c2 == [c1 EXCEPT !.Bucket = h]
        s4 == Append(s3, Step("CreatePrimaryIndex", out.index))
    IN  IF out.resolve # NilErr THEN EarlyReturn(cn, out.resolve, s0)
        ELSE IF out.connect # NilErr THEN EarlyReturn(cn, out.connect, s1)
        ELSE IF autocreate /\ IsCreateFailure(out.create) THEN AbortOpen(c1, out.create, s2)
        ELSE IF out.open # NilErr
        THEN AbortOpen(c1, WrapOpenBucketError("", out.open), s3)
        ELSE IF ~NeedsIndex(newBucket, c2.autoIndex)
        THEN [conn |-> c2, err |-> NilErr, steps |-> s3]
        ELSE IF out.index # NilErr THEN AbortOpen(c2, out.index, s4)
        ELSE [conn |-> c2, err |-> NilErr, steps |-> s4]

\* A Close that leaves the cluster handle.
ConnectionCloseKeepsCluster(cn) == [cn EXCEPT !.Bucket = 0]

\* CouchbaseConnection.Close: Bucket.Close when there is a bucket, then both
\* references are cleared.
ConnectionClose(cn) == [cn EXCEPT !.Connection = 0, !.Bucket = 0]

\* The lifecycle calls the owner of a connection makes on it.
Configure(c, cfg) ==
    /\ conns' = [conns EXCEPT ![c] = ConnectionConfigure(conns[c], cfg)]
    /\ call' = [NoLifeCall EXCEPT !.op = "Configure", !.c = c]
    /\ UNCHANGED <<opens, pst, keyVars, del, rsv>>

Open(c, out) ==
    LET r == ConnectionOpen(conns[c], out, opens + 1)
    IN  /\ opens < MaxOpens
        /\ conns' = [conns EXCEPT ![c] = r.conn]
        /\ opens' = opens + 1
        /\ call' = [NoLifeCall EXCEPT !.op = "Open", !.c = c, !.err = r.err,
                        !.steps = r.steps, !.before = conns, !.pbefore = pst]
        /\ UNCHANGED <<pst, keyVars, del, rsv>>

Close(c) ==
    /\ conns' = [conns EXCEPT ![c] = ConnectionClose(conns[c])]
    /\ call' = [NoLifeCall EXCEPT !.op = "Close", !.c = c, !.err = NilErr,
                    !.steps = IF conns[c].Bucket # 0
                              THEN <<Step("Bucket.Close", NilErr)>> ELSE <<>>,
                    !.before = conns, !.pbefore = pst]
    /\ UNCHANGED <<opens, pst, keyVars, del, rsv>>

\* ------------------------------------------- CouchbasePersistence lifecycle
\* CouchbasePersistence.Configure: keeps the config (as the options a
\* connection configured with it gets) for createConnection.
PersistenceConfigure(cfg) ==
    /\ pst' = [pst EXCEPT !.config = <<ConnectionConfigure(NewCouchbaseConnection, cfg)>>]
    /\ call' = [NoLifeCall EXCEPT !.op = "P.Configure"]
    /\ UNCHANGED <<conns, opens, keyVars, del, rsv>>

\* createConnection: a new connection component, configured when the
\* persistence has a config.
CreateConnection(ps) ==
    IF ps.config = <<>> THEN NewCouchbaseConnection ELSE ps.config[1]

\* SetReferences: the connection found in the references, or a local one.
SetReferences(injected) ==
    /\ IF injected
       THEN /\ pst' = [pst EXCEPT !.Connection = "shared", !.localConnection = FALSE]
            /\ UNCHANGED conns
       ELSE /\ pst' = [pst EXCEPT !.Connection = "own", !.localConnection = TRUE]
            /\ conns' = [conns EXCEPT !["own"] = CreateConnection(pst)]
    /\ call' = [NoLifeCall EXCEPT !.op = "P.SetReferences"]
    /\ UNCHANGED <<opens, keyVars, del, rsv>>

\* UnsetReferences.
UnsetReferences ==
    /\ pst' = [pst EXCEPT !.Connection = "nil"]
    /\ call' = [NoLifeCall EXCEPT !.op = "P.UnsetReferences"]
    /\ UNCHANGED <<conns, opens, keyVars, del, rsv>>

\* A persistence that takes no connection for its own.
IsLocalNever(ps) == FALSE

\* A persistence that takes every connection for its own.
IsLocalAlways(ps) == TRUE

\* if c.localConnection
IsLocal(ps) == ps.localConnection

\* CouchbasePersistence.Open.
PersistenceOpen(out) ==
    LET created == pst.Connection = "nil"
        p1 == IF created
              THEN [pst EXCEPT !.Connection = "own", !.localConnection = TRUE]
              ELSE pst
        cs1 == IF created THEN [conns EXCEPT !["own"] = CreateConnection(pst)] ELSE conns
        c == p1.Connection
        r == IF IsLocal(p1) THEN ConnectionOpen(cs1[c], out, opens + 1)
             ELSE [conn |-> cs1[c], err |-> NilErr, steps |-> <<>>]
        err == IF r.err = NilErr /\ ~ConnectionIsOpen(r.conn)
               THEN Err("ConnectionError", "CONNECT_FAILED", <<"Couchbase connection is not opened">>)
               ELSE r.err
    IN  /\ opens < MaxOpens
        /\ IF pst.opened
           THEN /\ UNCHANGED <<pst, conns, opens>>
                /\ call' = [NoLifeCall EXCEPT !.op = "P.Open", !.c = pst.Connection,
                                !.before = conns, !.pbefore = pst]
           ELSE /\ conns' = [cs1 EXCEPT ![c] = r.conn]
                /\ opens' = IF IsLocal(p1) THEN opens + 1 ELSE opens
                /\ pst' = IF err # NilErr THEN [p1 EXCEPT !.opened = FALSE]
                          ELSE [p1 EXCEPT !.opened = TRUE, !.Cluster = r.conn.Connection,
                                          !.Bucket = r.conn.Bucket]
                /\ call' = [NoLifeCall EXCEPT !.op = "P.Open", !.c = c, !.err = err,
                                !.steps = r.steps, !.before = conns, !.pbefore = pst]
        /\ UNCHANGED <<keyVars, del, rsv>>

\* CouchbasePersistence.Close.
PersistenceClose ==
    /\ IF ~pst.opened
       THEN /\ UNCHANGED <<pst, conns>>
            /\ call' = [NoLifeCall EXCEPT !.op = "P.Close", !.c = pst.Connection,
                            !.before = conns, !.pbefore = pst]
       ELSE IF pst.Connection = "nil"
       THEN /\ UNCHANGED <<pst, conns>>
            /\ call' = [NoLifeCall EXCEPT !.op = "P.Close", !.c = "nil",
                            !.err = Err("InvalidStateError", "NO_CONNECTION",
                                        <<"Couchbase connection is missing">>),
                            !.before = conns, !.pbefore = pst]
       ELSE /\ conns' = IF IsLocal(pst)
                        THEN [conns EXCEPT ![pst.Connection] = ConnectionClose(conns[pst.Connection])]
                        ELSE conns
            /\ pst' = [pst EXCEPT !.opened = FALSE, !.Cluster = 0, !.Bucket = 0]
            /\ call' = [NoLifeCall EXCEPT !.op = "P.Close", !.c = pst.Connection,
                            !.steps = IF IsLocal(pst) /\ conns[pst.Connection].Bucket # 0
                                      THEN <<Step("Bucket.Close", NilErr)>> ELSE <<>>,
                            !.before = conns, !.pbefore = pst]
    /\ UNCHANGED <<opens, keyVars, del, rsv>>

\* --------------------------------------------------------------- Clear
\* Bucket names a persistence is constructed or configured with.
BucketNames == {"", "test"}
FlushError == Err("error", "", <<"flush is disabled for the bucket">>)

\* WithCause(err) where err is nil: the error is left without a cause, or
\* the call on the nil error panics.
WithNilCause(err) == {err, Err("panic", "", <<"nil pointer dereference">>)}

\* CouchbasePersistence.Clear of a persistence whose BucketName is
\* bucketName, the flush answering flushErr.
Clear(bucketName, flushErr) ==
    LET flushed == bucketName # "" /\ flushErr = NilErr
    IN  \E failed \in WithNilCause(Err("ConnectionError", "FLUSH_FAILED",
                                       <<"Couchbase bucket flush failed">>)) :
            /\ store' = IF flushed
                        THEN [k \in DOMAIN store |-> [NoDoc EXCEPT !.cas = store[k].cas]]
                        ELSE store
            /\ call' = [NoLifeCall EXCEPT
                            !.op = "Clear", !.bucket = bucketName,
                            !.err = IF bucketName = ""
                                    THEN Err("error", "", <<"Bucket name is not defined">>)
                                    ELSE IF flushErr # NilErr THEN failed ELSE NilErr,
                            !.steps = IF bucketName = "" THEN <<>>
                                      ELSE <<Step("Flush", flushErr)>>]
            /\ UNCHANGED <<writes, genCount, up, last, del, conns, opens, pst, rsv>>

NextClear ==
    \/ \E p \in Persistences, item \in Items :
            Create(p, item) /\ UNCHANGED <<del, lifeVars>>
    \/ \E bucketName \in BucketNames, flushErr \in {NilErr, FlushError} :
            Clear(bucketName, flushErr)

SpecClear == Init /\ [][NextClear]_vars

\* The connection its owner drives directly.
OwnerConns == {"shared"}

NextLife ==
    \/ \E c \in OwnerConns, cfg \in ConfigOptions : Configure(c, cfg)
    \/ \E c \in OwnerConns, out \in Outcomes : Open(c, out)
    \/ \E c \in OwnerConns : Close(c)
    \/ \E cfg \in ConfigOptions : PersistenceConfigure(cfg)
    \/ \E injected \in BOOLEAN : SetReferences(injected)
    \/ UnsetReferences
    \/ \E out \in Outcomes : PersistenceOpen(out)
    \/ PersistenceClose

SpecLife == Init /\ [][NextLife]_vars

\* The lifecycle calls alone: the components are configured and wired while
\* the persistence is not opened, then opened and closed.
NextOwner ==
    \/ \E c \in OwnerConns, cfg \in ConfigOptions : ~pst.opened /\ Configure(c, cfg)
    \/ \E injected \in BOOLEAN : ~pst.opened /\ SetReferences(injected)
    \/ \E c \in OwnerConns, out \in Outcomes : Open(c, out)
    \/ \E c \in OwnerConns : Close(c)
    \/ \E out \in Outcomes : PersistenceOpen(out)
    \/ PersistenceClose

SpecOwner == Init /\ [][NextOwner]_vars

\* ------------------------------------------- CouchbaseConnectionResolver
\* Configure, called once on the new resolver: both base resolvers take the
\* connection(s) and credential sections of the configuration.
ResolverConfigure(connections, credential) ==
    /\ rsv = NewCouchbaseConnectionResolver
    /\ rsv' = [NewCouchbaseConnectionResolver EXCEPT !.connections = connections,
                                                     !.credential = credential]
    /\ UNCHANGED <<keyVars, del, conns, opens, pst, call>>

\* Resolve, the first goroutine: ResolveAll, then validateConnections when
\* the lookup succeeded.
ConnLookup(r, fail) ==
    LET resolved == IF fail THEN <<>> ELSE r.connections
        errConn == IF fail THEN DiscoveryError ELSE NilErr
    IN [r EXCEPT !.resolved = resolved,
                 !.errConn = IF errConn = NilErr THEN ValidateConnections(resolved)
                             ELSE errConn,
                 !.finished = Append(@, "conn")]

\* Resolve, the second goroutine: CredentialResolver.Lookup.
CredLookup(r, fail) ==
    [r EXCEPT !.looked = IF fail THEN <<>> ELSE r.credential,
              !.errCred = IF fail THEN StoreError ELSE NilErr,
              !.finished = Append(@, "cred")]

\* Resolve, after wg.Wait(): the result, with options.Keys() answering keys.
ResolveEnd(r, keys) ==
    [r EXCEPT !.pc = "idle", !.prev = r.ret,
              !.ret = ResolveResult(r.errConn, r.errCred,
                                    ComposeConnection(r.resolved, r.looked, keys))]

\* Resolve, up to wg.Add(2): fresh local variables, both goroutines to run.
ResolveBegin(r, failConn, failCred) ==
    [r EXCEPT !.pc = "run", !.failConn = failConn, !.failCred = failCred,
              !.finished = <<>>, !.resolved = <<>>, !.errConn = NilErr,
              !.looked = <<>>, !.errCred = NilErr]

\* One whole Resolve call whose lookups both answer from the configuration.
Resolve ==
    /\ rsv.pc = "idle"
    /\ LET r == CredLookup(ConnLookup(ResolveBegin(rsv, FALSE, FALSE), FALSE), FALSE)
       IN \E keys \in KeyOrders(ComposeOptions(r.resolved)) :
            rsv' = ResolveEnd(r, keys)
    /\ UNCHANGED <<keyVars, del, conns, opens, pst, call>>

\* Resolve step by step: the call starts its two goroutines ...
ResolveStart(failConn, failCred) ==
    /\ rsv.pc = "idle"
    /\ rsv' = ResolveBegin(rsv, failConn, failCred)
    /\ UNCHANGED <<keyVars, del, conns, opens, pst, call>>

\* ... the connection goroutine runs to wg.Done() ...
ConnTask ==
    /\ rsv.pc = "run"
    /\ \A i \in DOMAIN rsv.finished : rsv.finished[i] # "conn"
    /\ rsv' = ConnLookup(rsv, rsv.failConn)
    /\ UNCHANGED <<keyVars, del, conns, opens, pst, call>>

\* ... the credential goroutine runs to wg.Done() ...
CredTask ==
    /\ rsv.pc = "run"
    /\ \A i \in DOMAIN rsv.finished : rsv.finished[i] # "cred"
    /\ rsv' = CredLookup(rsv, rsv.failCred)
    /\ UNCHANGED <<keyVars, del, conns, opens, pst, call>>

\* ... and wg.Wait() lets the call return once both are done.
ResolveReturn ==
    /\ rsv.pc = "run"
    /\ Len(rsv.finished) = 2
    /\ \E keys \in KeyOrders(ComposeOptions(rsv.resolved)) :
            rsv' = ResolveEnd(rsv, keys)
    /\ UNCHANGED <<keyVars, del, conns, opens, pst, call>>

NextResolve ==
    \/ \E connections \in EndpointLists, credential \in Credentials :
            ResolverConfigure(connections, credential)
    \/ Resolve

SpecResolve == Init /\ [][NextResolve]_vars

\* The step-by-step calls run over configurations of at most one endpoint.
NextJoin ==
    \/ \E connections \in ListsOver(Endpoints, 1), credential \in Credentials :
            ResolverConfigure(connections, credential)
    \/ \E failConn, failCred \in BOOLEAN : ResolveStart(failConn, failCred)
    \/ ConnTask
    \/ CredTask
    \/ ResolveReturn

SpecJoin == Init /\ [][NextJoin]_vars

\* ================================================================ properties
Writes == {"Create", "Set", "Update"}
Tagged(body, coll) == "_c" \in DOMAIN body /\ body["_c"] = coll

\* C1: every document written by Create, Set, Update or UpdatePartially
\* through a persistence of collection C carries the field _c equal to C.
C1_WritesCarryTag ==
    (last.op \in Writes \cup {"UpdatePartially"} /\ last.err = NoErr)
        => Tagged(store[last.key].body, last.p.coll)

\* C2: for an id with no stored document, GetOneById and DeleteById return
\* (nil, nil), never an error, and leave the store as it was.
C2_MissingIdIsNilNil ==
    (last.op \in {"GetOneById", "DeleteById"} /\ ~last.before.present)
        => /\ last.res = None
           /\ last.err = NoErr
           /\ store[last.key] = last.before

\* C3: Create on an existing key fails and leaves the document unchanged; Set
\* succeeds and stores the item, present or absent before; Update on an
\* absent key fails and creates no document.
C3_InsertUpsertReplace ==
    /\ (last.op = "Create" /\ last.before.present)
        => /\ last.err # NoErr
           /\ last.res = None
           /\ store[last.key] = last.before
    /\ last.op = "Set"
        => /\ last.err = NoErr
           /\ store[last.key].present
           /\ store[last.key].body["id"] = last.id
           /\ \A f \in {"key", "content"} : store[last.key].body[f] = last.item[f]
    /\ (last.op = "Update" /\ ~last.before.present)
        => /\ last.err # NoErr
           /\ last.res = None
           /\ ~store[last.key].present

\* C3 witness: a Create met an existing document with other content, and a
\* document is still stored under that key.
C3_Witness ==
    /\ last.op = "Create"
    /\ last.before.present
    /\ last.before.body["content"] # last.item["content"]
    /\ last.err = ErrKeyExists

Foreign(body, p) == "_c" \in DOMAIN body /\ body["_c"] # p.coll

\* C5: GetPageByFilter through the persistence of collection A returns no
\* document tagged for another collection, whatever the caller's filter.
C5_PageStaysInCollection ==
    last.op = "GetPageByFilter"
        => \A i \in DOMAIN last.raw : ~Foreign(last.raw[i], last.p)

\* C6: GetListByFilter filters on (_c = CollectionName) [AND filter] as
\* GetPageByFilter does: it returns documents of its own collection only.
C6_ListStaysInCollection ==
    last.op = "GetListByFilter"
        => \A i \in DOMAIN last.raw : Tagged(last.raw[i], last.p.coll)

\* C7: DeleteByFilter through the persistence of collection A deletes only
\* documents tagged _c = A.
C7_DeleteStaysInCollection ==
    last.op = "DeleteByFilter"
        => \A i \in DOMAIN last.raw : Tagged(last.raw[i], last.p.coll)

\* C8: every document a key-based read or delete through the persistence of
\* collection A reaches was written with _c = A.
C8_KeyReadsStayInCollection ==
    last.op \in {"GetOneById", "GetListByIds", "DeleteById"}
        => \A i \in DOMAIN last.raw : Tagged(last.raw[i], last.p.coll)

\* C9: the write-back of UpdatePartially carries the CAS of its own Get: when
\* the document changed after that Get the write-back fails and the document
\* stays as the other writer left it; a write-back that succeeds met the
\* version its Get had read and stored that version with the merge map
\* applied.
C9_NoLostUpdate ==
    (last.op = "UpdatePartially" /\ last.cas # 0)
        => /\ last.before.cas # last.cas
                => (last.err # NoErr /\ last.res = None /\ store[last.key] = last.before)
           /\ last.err = NoErr
                => /\ last.before.present
                   /\ last.before.cas = last.cas
                   /\ \A f \in DOMAIN last.data : store[last.key].body[f] = last.data[f]
                   /\ \A f \in DOMAIN store[last.key].body \ DOMAIN last.data :
                        /\ f \in DOMAIN last.before.body
                        /\ store[last.key].body[f] = last.before.body[f]

\* C9 witness: a write-back met a document that another UpdatePartially had
\* replaced since the Get, and was refused.
C9_Witness ==
    /\ last.op = "UpdatePartially"
    /\ last.cas # 0
    /\ last.before.present
    /\ last.before.cas # last.cas
    /\ last.before.body["key"] = "z"
    /\ last.data = [content |-> "z"]
    /\ last.err = ErrKeyExists

\* C10: a successful UpdatePartially sets the fields of the merge map and
\* leaves every other field of the stored document and of the returned
\* record as it was before the call.
C10_PartialUpdateFrame ==
    (last.op = "UpdatePartially" /\ last.err = NoErr)
        => /\ \A f \in DOMAIN last.data : store[last.key].body[f] = last.data[f]
           /\ \A f \in DOMAIN last.before.body \ DOMAIN last.data :
                /\ f \in DOMAIN store[last.key].body
                /\ store[last.key].body[f] = last.before.body[f]
           /\ \A f \in DOMAIN last.res[1] \ DOMAIN last.data :
                /\ f \in DOMAIN last.before.body
                /\ last.res[1][f] = last.before.body[f]

\* The ids of a list, and the removals of a returned DeleteByIds by outcome.
Listed(ids) == {ids[i] : i \in DOMAIN ids}
Succeeded(d) == {i \in DOMAIN d.tasks : d.tasks[i].remErr = NoErr}
Failed(d) == {i \in DOMAIN d.tasks : d.tasks[i].remErr \notin {NoErr, ErrKeyNotFound}}

\* The documents of the collection of p with a listed id.
OfListedId(doc, p, ids) ==
    /\ doc.present
    /\ Tagged(doc.body, p.coll)
    /\ doc.body["id"] \in Listed(ids)

\* C11: a DeleteByIds whose removals the server all serves returns nil,
\* removes exactly the documents of the listed ids that existed, and leaves
\* every other document as it was.
C11_DeleteByIdsExact ==
    (del.pc = "returned" /\ Failed(del) = {})
        => /\ del.ret = [typ |-> NoErr, dat |-> NoErr]
           /\ \A k \in AllKeys :
                IF OfListedId(del.before[k], del.p, del.ids)
                THEN ~del.after[k].present
                ELSE del.after[k] = del.before[k]

\* C12: DeleteByIds returns after every removal has finished, with the
\* error of one of the removals that failed if there is one, and nil otherwise.
C12_ErrorAccountsForAll ==
    del.pc = "returned"
        => /\ \A i \in DOMAIN del.tasks : del.tasks[i].pc = "done"
           /\ Failed(del) = {} => del.ret = [typ |-> NoErr, dat |-> NoErr]
           /\ Failed(del) # {} =>
                \E i \in Failed(del) :
                    del.ret = [typ |-> del.tasks[i].remErr, dat |-> del.tasks[i].remErr]

\* C13: the count DeleteByIds logs is the number of removals that succeeded.
C13_CountIsSuccesses ==
    del.pc = "returned" => del.count = Cardinality(Succeeded(del))

\* The calls an Open made, by name; its last call; a closed connection.
HasStep(name) == \E i \in DOMAIN call.steps : call.steps[i].step = name
StepErr(name) == (CHOOSE i \in DOMAIN call.steps : call.steps[i].step = name)
LastStep == call.steps[Len(call.steps)]
IsClosed(cn) == cn.Connection = 0 /\ cn.Bucket = 0
FailedAt(name) ==
    /\ call.op = "Open"
    /\ LastStep.step = name
    /\ LastStep.err # NilErr

\* C14: Open on a connection that is already open succeeds without calling
\* the resolver, the cluster or the bucket, and leaves both handles as they
\* were.
C14_OpenWhenOpenIsNoOp ==
    (call.op = "Open" /\ ConnectionIsOpen(call.before[call.c]))
        => /\ call.err = NilErr
           /\ call.steps = <<>>
           /\ conns[call.c] = call.before[call.c]

\* C15: when the resolution or the connect fails during Open on a closed
\* connection, Open returns that very error and the connection stays closed.
C15_EarlyFailureStaysClosed ==
    ((FailedAt("Resolve") \/ FailedAt("Connect")) /\ ~ConnectionIsOpen(call.before[call.c]))
        => /\ call.err = LastStep.err
           /\ IsClosed(conns[call.c])

\* C15 witness: the connect failed on a closed connection.
C15_Witness ==
    /\ call.op = "Open"
    /\ ~ConnectionIsOpen(call.before[call.c])
    /\ LastStep = Step("Connect", ConnectError)
    /\ call.err = ConnectError

\* C16: with auto_create, a creation failure saying the bucket already
\* exists lets Open go on to open the bucket; every other creation failure
\* is returned by Open and leaves the connection closed.
C16_CreateFailure ==
    (call.op = "Open" /\ HasStep("InsertBucket"))
        => LET e == call.steps[StepErr("InsertBucket")].err
           IN  /\ (e # NilErr /\ StringsIndex(e.msg, "name already exist") >= 0)
                    => HasStep("OpenBucket")
               /\ (e # NilErr /\ StringsIndex(e.msg, "name already exist") < 0)
                    => /\ call.err = e
                       /\ LastStep.step = "InsertBucket"
                       /\ IsClosed(conns[call.c])

\* C17: when opening the bucket fails, Open returns a ConnectionError with
\* code CONNECT_FAILED whose cause is the open-bucket failure, and the
\* connection is closed.
C17_OpenBucketFailure ==
    FailedAt("OpenBucket")
        => /\ call.err.type = "ConnectionError"
           /\ call.err.code = "CONNECT_FAILED"
           /\ call.err.cause = <<LastStep.err>>
           /\ IsClosed(conns[call.c])

\* C17 witness: the bucket existed already and could not be opened.
C17_Witness ==
    /\ FailedAt("OpenBucket")
    /\ HasStep("InsertBucket")
    /\ call.steps[StepErr("InsertBucket")].err = CreateExists
    /\ call.err.cause = <<OpenBucketError>>

\* C18: Open creates the primary index exactly when it opened the bucket
\* and either created the bucket itself or auto_index is set, as the call
\* that follows the opening of the bucket; when that fails Open returns the
\* error and the connection is closed.
C18_IndexWhenNewOrAuto ==
    call.op = "Open"
        => LET opened == HasStep("OpenBucket")
                            /\ call.steps[StepErr("OpenBucket")].err = NilErr
               created == HasStep("InsertBucket")
                            /\ call.steps[StepErr("InsertBucket")].err = NilErr
           IN  /\ HasStep("CreatePrimaryIndex")
                    <=> (opened /\ (created \/ call.before[call.c].autoIndex))
               /\ HasStep("CreatePrimaryIndex")
                    => /\ LastStep.step = "CreatePrimaryIndex"
                       /\ call.steps[Len(call.steps) - 1] = Step("OpenBucket", NilErr)
               /\ FailedAt("CreatePrimaryIndex")
                    => call.err = LastStep.err /\ IsClosed(conns[call.c])

\* C18 witness: auto_index is off, Open created the bucket, and the index
\* creation failed.
C18_Witness ==
    /\ FailedAt("CreatePrimaryIndex")
    /\ ~call.before[call.c].autoIndex
    /\ call.steps[StepErr("InsertBucket")].err = NilErr
    /\ call.err = IndexError

\* C19: Close returns nil and leaves the connection without cluster and
\* bucket reference, whatever its state was; on a closed connection it
\* changes nothing.
C19_CloseIdempotent ==
    call.op = "Close"
        => /\ call.err = NilErr
           /\ IsClosed(conns[call.c])
           /\ ~ConnectionIsOpen(conns[call.c])
           /\ IsClosed(call.before[call.c]) => conns[call.c] = call.before[call.c]

\* C19 witness: a Close of an open connection with its bucket.
C19_Witness ==
    /\ call.op = "Close"
    /\ call.before[call.c].Connection # 0
    /\ call.before[call.c].Bucket # 0
    /\ call.steps = <<Step("Bucket.Close", NilErr)>>

\* C20: Persistence.Open and Persistence.Close call the connection's Open
\* and Close only on a connection the persistence created; the injected
\* connection is left exactly as it was.
C20_SharedConnectionUntouched ==
    call.op \in {"P.Open", "P.Close"}
        => /\ conns["shared"] = call.before["shared"]
           /\ call.steps # <<>> => call.c = "own"
           /\ call.pbefore.Connection = "shared"
                => call.steps = <<>> /\ conns = call.before

\* C20 witness: a persistence opened over an injected, open connection is
\* closed, and the connection is still open.
C20_Witness ==
    /\ call.op = "P.Close"
    /\ call.pbefore.opened
    /\ call.pbefore.Connection = "shared"
    /\ ~pst.opened
    /\ ConnectionIsOpen(conns["shared"])
    /\ conns["shared"].Bucket # 0

\* C21: Persistence.Open over a connection that is not open once its own
\* open step is over fails with ConnectionError CONNECT_FAILED; the
\* persistence stays not opened and holds no cluster or bucket handle.
C21_NotOpenConnectionFails ==
    (/\ call.op = "P.Open"
     /\ ~call.pbefore.opened
     /\ \A i \in DOMAIN call.steps : call.steps[i].err = NilErr
     /\ conns[call.c].Connection = 0)
        => /\ call.err.type = "ConnectionError"
           /\ call.err.code = "CONNECT_FAILED"
           /\ ~pst.opened
           /\ pst.Bucket = 0
           /\ pst.Cluster = 0

\* C21 witness: the persistence was opened over an injected connection
\* that its owner had closed again.
C21_Witness ==
    /\ call.op = "P.Open"
    /\ call.pbefore.Connection = "shared"
    /\ ~call.pbefore.opened
    /\ opens > 0
    /\ conns["shared"].Connection = 0
    /\ call.err.code = "CONNECT_FAILED"

\* C22 as stated: Persistence.Open with no connection set fails with
\* InvalidStateError NO_CONNECTION.
C22_NoConnectionFails ==
    (call.op = "P.Open" /\ ~call.pbefore.opened /\ call.pbefore.Connection = "nil")
        => /\ call.err.type = "InvalidStateError"
           /\ call.err.code = "NO_CONNECTION"

\* C22 amended: Persistence.Open with no connection set creates a local
\* connection, takes it for its own and opens it; it never fails with an
\* InvalidStateError, and when the connection's Open succeeds the
\* persistence is opened over it.
C22_NoConnectionCreatesLocal ==
    (call.op = "P.Open" /\ ~call.pbefore.opened /\ call.pbefore.Connection = "nil")
        => /\ call.c = "own"
           /\ pst.Connection = "own"
           /\ pst.localConnection
           /\ call.steps # <<>>
           /\ call.steps[1].step = "Resolve"
           /\ call.err.type # "InvalidStateError"
           /\ call.err = NilErr
                => /\ pst.opened
                   /\ conns["own"].Connection # 0
                   /\ pst.Bucket = conns["own"].Bucket

\* C22 witness: an Open after UnsetReferences succeeded over a connection
\* the persistence made for itself.
C22_Witness ==
    /\ call.op = "P.Open"
    /\ call.pbefore.Connection = "nil"
    /\ ~call.pbefore.localConnection
    /\ call.err = NilErr
    /\ pst.opened
    /\ conns["own"].Bucket # 0

\* C23: Clear without a bucket name fails with a generic error and sends no
\* flush; with one it flushes the whole bucket, and a flush failure comes
\* back as ConnectionError FLUSH_FAILED whose cause is the flush failure.
C23_ClearFlushes ==
    call.op = "Clear"
        => /\ call.bucket = ""
                => call.err.type = "error" /\ call.steps = <<>>
           /\ (call.bucket # "" /\ call.steps = <<Step("Flush", NilErr)>>)
                => call.err = NilErr /\ \A k \in DOMAIN store : ~store[k].present
           /\ (call.bucket # "" /\ call.steps = <<Step("Flush", FlushError)>>)
                => /\ call.err.type = "ConnectionError"
                   /\ call.err.code = "FLUSH_FAILED"
                   /\ call.err.cause = <<FlushError>>

\* ------------------------------------------------ resolver helpers
Returned == rsv.pc = "idle" /\ rsv.ret.done
LookupsAnswered == ~rsv.failConn /\ ~rsv.failCred
Lacking(connection) ==
    connection.uri = "" /\ (connection.host = "" \/ connection.port = 0)
FirstLacking ==
    rsv.connections[CHOOSE i \in DOMAIN rsv.connections :
        /\ Lacking(rsv.connections[i])
        /\ \A j \in DOMAIN rsv.connections : Lacking(rsv.connections[j]) => i <= j]

\* C24: Resolve fails with a configuration error and returns no parameters
\* when no endpoint is configured (NO_CONNECTION), and with the configuration
\* error NO_HOST or NO_PORT when some endpoint has no uri and lacks a host or
\* a port respectively (the first such endpoint in configured order decides).
C24_InvalidEndpointsFail ==
    (Returned /\ LookupsAnswered) =>
        /\ rsv.connections = <<>> =>
            /\ rsv.ret.params = <<>>
            /\ rsv.ret.err.type = "ConfigError"
            /\ rsv.ret.err.code = "NO_CONNECTION"
        /\ (\E i \in DOMAIN rsv.connections : Lacking(rsv.connections[i])) =>
            /\ rsv.ret.params = <<>>
            /\ rsv.ret.err.type = "ConfigError"
            /\ rsv.ret.err.code = IF FirstLacking.host = "" THEN "NO_HOST" ELSE "NO_PORT"

C24_Witness ==
    /\ Returned /\ LookupsAnswered
    /\ Len(rsv.connections) = 2
    /\ ~Lacking(rsv.connections[1])
    /\ Lacking(rsv.connections[2])
    /\ rsv.connections[2].host # ""
    /\ rsv.ret.err.code = "NO_PORT"

GivenUris == {i \in DOMAIN rsv.connections : rsv.connections[i].uri # ""}
FirstGivenUri ==
    rsv.connections[CHOOSE i \in GivenUris : \A j \in GivenUris : i <= j].uri
CredentialUsername == IF rsv.credential = <<>> THEN "" ELSE rsv.credential[1].username
CredentialPassword == IF rsv.credential = <<>> THEN "" ELSE rsv.credential[1].password

\* C25 as stated: if any configured endpoint carries a uri, Resolve returns
\* the first such uri verbatim, with the credential's username and password
\* attached.
C25_UriReturnedVerbatim ==
    (Returned /\ LookupsAnswered /\ GivenUris # {}) =>
        /\ rsv.ret.params # <<>>
        /\ rsv.ret.params[1].Uri = FirstGivenUri
        /\ rsv.ret.params[1].Username = CredentialUsername
        /\ rsv.ret.params[1].Password = CredentialPassword

\* C25: if some configured endpoint carries a uri and every endpoint without
\* one has a host and a port, Resolve returns the first such uri verbatim,
\* skipping composition, with the credential's username attached and its
\* password attached when the username is not empty; an endpoint without a
\* uri that lacks a host or a port makes Resolve fail with the configuration
\* error instead.
C25_ValidatedUriReturnedVerbatim ==
    (Returned /\ LookupsAnswered /\ GivenUris # {}) =>
        IF \E i \in DOMAIN rsv.connections : Lacking(rsv.connections[i])
        THEN rsv.ret.params = <<>> /\ rsv.ret.err.type = "ConfigError"
        ELSE /\ rsv.ret.err = NilErr
             /\ rsv.ret.params # <<>>
             /\ rsv.ret.params[1].Uri = FirstGivenUri
             /\ rsv.ret.params[1].Username = CredentialUsername
             /\ rsv.ret.params[1].Password =
                    IF CredentialUsername # "" THEN CredentialPassword ELSE ""

C25_Witness ==
    /\ Returned /\ LookupsAnswered
    /\ Len(rsv.connections) = 2
    /\ rsv.connections[1].uri = ""
    /\ rsv.connections[1].database # ""
    /\ DOMAIN rsv.connections[1].options # {}
    /\ rsv.connections[2].uri # ""
    /\ CredentialUsername # ""
    /\ rsv.ret.params # <<>>
    /\ rsv.ret.params[1].Uri = rsv.connections[2].uri
    /\ rsv.ret.params[1].Password = CredentialPassword

RECURSIVE HostPorts(_)
HostPorts(connections) ==
    IF connections = <<>> THEN ""
    ELSE Head(connections).host \o ":" \o FormatInt(Head(connections).port)
            \o (IF Tail(connections) = <<>> THEN ""
                ELSE "," \o HostPorts(Tail(connections)))
RECURSIVE DatabasePath(_)
DatabasePath(connections) ==
    IF connections = <<>> THEN ""
    ELSE IF Head(connections).database # "" THEN "/" \o Head(connections).database
    ELSE DatabasePath(Tail(connections))
QueryStrings ==
    LET options == ComposeOptions(rsv.connections)
    IN {IF keys = <<>> THEN "" ELSE "?" \o ComposeParams(options, keys) :
            keys \in KeyOrders(options)}
Composable ==
    /\ rsv.connections # <<>>
    /\ GivenUris = {}
    /\ \A i \in DOMAIN rsv.connections : ~Lacking(rsv.connections[i])

\* C26: endpoints without a uri are composed into
\* couchbase://host1:port1,host2:port2,...[/database] in configured order,
\* the first non-empty database being the path (followed by the query string
\* of the extra options, if any); the credential does not change the URI, its
\* username and password become Username and Password of the result, and
\* both are empty when no credential is configured.
C26_ComposedUri ==
    (Returned /\ LookupsAnswered /\ Composable) =>
        /\ rsv.ret.err = NilErr
        /\ rsv.ret.params # <<>>
        /\ \E query \in QueryStrings :
             rsv.ret.params[1].Uri =
                "couchbase://" \o HostPorts(rsv.connections)
                    \o DatabasePath(rsv.connections) \o query
        /\ rsv.ret.params[1].Username = CredentialUsername
        /\ CredentialUsername # "" => rsv.ret.params[1].Password = CredentialPassword
        /\ rsv.credential = <<>> => rsv.ret.params[1].Password = ""

C26_Witness ==
    /\ Returned /\ LookupsAnswered /\ Composable
    /\ Len(rsv.connections) = 2
    /\ rsv.connections[1].database = ""
    /\ rsv.ret.params # <<>>
    /\ rsv.ret.params[1].Uri = "couchbase://host1:8092,host2:8092/test"
    /\ rsv.ret.params[1].Username = "admin"
    /\ rsv.ret.params[1].Password = "password123"

\* C27: Resolve is deterministic: two calls on the same configuration return
\* the same outcome, and with two or more extra option keys the query string
\* lists them in one fixed order.
C27_ResolveDeterministic ==
    (Returned /\ LookupsAnswered /\ rsv.prev.done) => rsv.ret = rsv.prev

\* C28: Resolve returns only after both lookups have finished, and its
\* outcome does not depend on which finished first: the endpoint lookup or
\* validation error if there is one, else the credential lookup error if
\* there is one, else the composed parameters.
C28_JoinThenPrecedence ==
    Returned =>
        /\ Len(rsv.finished) = 2
        /\ IF rsv.failConn
           THEN rsv.ret.params = <<>> /\ rsv.ret.err = DiscoveryError
           ELSE IF \/ rsv.connections = <<>>
                   \/ \E i \in DOMAIN rsv.connections : Lacking(rsv.connections[i])
           THEN rsv.ret.params = <<>> /\ rsv.ret.err.type = "ConfigError"
           ELSE IF rsv.failCred
           THEN rsv.ret.params = <<>> /\ rsv.ret.err = StoreError
           ELSE rsv.ret.params # <<>> /\ rsv.ret.err = NilErr

C28_Witness ==
    /\ Returned
    /\ rsv.finished = <<"cred", "conn">>
    /\ rsv.failConn /\ rsv.failCred
    /\ rsv.ret.err = DiscoveryError

\* The requested ids whose bucket keys hold a document, in request order.
Existing(p, ids) ==
    SelectSeq(ids, LAMBDA id : store[GenerateBucketId(p, id)].present)

\* C29: GetListByIds returns, in the order of the requested ids, exactly the
\* records of those ids whose documents exist: ids that are missing are left
\* out and the call does not fail.
C29_ListByIdsInOrder ==
    last.op = "GetListByIds"
        => /\ last.err = NoErr
           /\ Len(last.res) = Len(Existing(last.p, last.ids))
           /\ \A i \in DOMAIN last.res : last.res[i].id = Existing(last.p, last.ids)[i]

\* C30: GetPageByFilter returns as total the number of records in the page
\* it returns when paging requested a total and 0 otherwise (never a count of
\* all matching rows); its statement has LIMIT take, where take is MaxPageSize
\* when paging gives none, and an OFFSET clause only when a skip was given.
C30_PageTotalAndWindow ==
    last.op = "GetPageByFilter"
        => /\ last.total = IF last.paging.total THEN Len(last.res) ELSE 0
           /\ last.limit = IF last.paging.take = -1 THEN MaxPageSize ELSE last.paging.take
           /\ Len(last.res) <= last.limit
           /\ last.offset # None <=> last.paging.skip # -1
           /\ last.offset # None => last.offset = Some(last.paging.skip)

C30_Witness ==
    /\ last.op = "GetPageByFilter"
    /\ last.paging.total
    /\ last.offset = Some(1)
    /\ last.limit = 1
    /\ last.total = 1
    /\ Cardinality(Matching(store, PageFilter(last.p, last.filter))) = 2

\* The keys of the documents of p's collection that the caller's filter
\* selects.
CollectionMatching(p, filter) ==
    {k \in DOMAIN store :
        /\ store[k].present
        /\ Tagged(store[k].body, p.coll)
        /\ EvalWhere(filter, store[k].body, TRUE)}
PageFrom == IF last.paging.skip < 0 THEN 0 ELSE last.paging.skip

\* C31: GetPageByFilter with take larger than the number of matching rows of
\* the collection returns all of them (from the first) without error, and
\* with skip at or beyond that number returns an empty data sequence without
\* error.
C31_PageBeyondRows ==
    last.op = "GetPageByFilter" =>
        LET rows == CollectionMatching(last.p, last.filter)
        IN /\ last.err # ErrQuery => last.err = NoErr
           /\ (last.err = NoErr /\ PageFrom = 0 /\ last.limit > Cardinality(rows)) =>
                {last.raw[i] : i \in DOMAIN last.raw} = {store[k].body : k \in rows}
           /\ (last.err = NoErr /\ PageFrom >= Cardinality(rows)) => last.res = <<>>

\* C32: GetOneRandom returns (nil, nil) when no document matches the filter;
\* otherwise it returns one matching document, taken at an offset in
\* [0, count) where count is the number of documents matching the filter.
C32_RandomIsOneMatching ==
    (last.op = "GetOneRandom" /\ last.err = NoErr) =>
        LET matching == Matching(store, last.filter)
        IN IF matching = {}
           THEN last.res = None
           ELSE /\ last.res # None
                /\ last.total = Cardinality(matching)
                /\ last.offset # None
                /\ last.offset[1] \in 0..(Cardinality(matching) - 1)
                /\ \E k \in matching : last.res[1] = ConvertFromMap(last.p, store[k].body)

\* C33: when the store fails a query (the count or the row query of
\* GetOneRandom, the query of GetPageByFilter, GetListByFilter or
\* DeleteByFilter), the operation returns that failure to its caller with a
\* nil result; it does not panic.
C33_QueryFailureReturned ==
    (/\ last.op \in {"GetOneRandom", "GetPageByFilter", "GetListByFilter", "DeleteByFilter"}
     /\ last.err # NoErr)
        => /\ last.err = ErrQuery
           /\ last.res = None
           /\ last.op # "DeleteByFilter" => last.isNil

\* C34: Create, Set and Update never modify the caller's item: whatever the
\* outcome, the caller's record has the same identity (still empty if it was
\* empty) and the same fields after the call as before and no _c field; so
\* creating an id-less item succeeds each time, under a fresh generated id.
C34_CallerItemUntouched ==
    last.op \in Writes =>
        /\ last.after = last.item
        /\ "_c" \notin DOMAIN last.after
        /\ (last.op = "Create" /\ last.item.id = "") =>
                /\ last.err = NoErr
                /\ last.id # ""
                /\ ~last.before.present

C34_Witness ==
    /\ last.op = "Create"
    /\ last.item.id = ""
    /\ last.after.id = ""
    /\ last.err = NoErr
    /\ last.id = NextLong(2)
    /\ genCount = 2

\* C35: DeleteById on an id whose document exists removes that document and
\* returns the record that was stored (the id and the fields it was last
\* written with); a GetOneById for an id whose document is gone returns
\* (nil, nil).
C35_DeleteReturnsStored ==
    /\ (/\ last.op = "DeleteById"
        /\ last.before.present
        /\ last.before.body["id"] = last.id)
            => /\ last.err = NoErr
               /\ ~store[last.key].present
               /\ last.res # None
               /\ \A f \in StructFields : last.res[1][f] = last.before.body[f]
               /\ "_c" \notin DOMAIN last.res[1]
    /\ (last.op = "GetOneById" /\ ~store[last.key].present)
            => last.res = None /\ last.err = NoErr

C35_Witness ==
    /\ last.op = "GetOneById"
    /\ ~store[last.key].present
    /\ store[last.key].cas > 0
    /\ last.res = None
    /\ last.err = NoErr

\* C36: UpdatePartially for an id with no stored document returns (nil, nil)
\* rather than an error, and writes nothing.
C36_PartialUpdateOfMissingIsNilNil ==
    (last.op = "UpdatePartially" /\ ~last.before.present)
        => /\ last.res = None
           /\ last.err = NoErr
           /\ store[last.key] = last.before

KeyCalls == {"GetOneById", "DeleteById", "UpdatePartially"}

\* C37: a nil id yields the empty bucket key and any other id the collection
\* name followed by the id; GetOneById, DeleteById and UpdatePartially with a
\* nil id return (nil, nil) without issuing any request to the store.
C37_NilIdIsNoKey ==
    /\ \A p \in Persistences :
         /\ GenerateBucketId(p, NilId) = ""
         /\ \A id \in Ids : GenerateBucketId(p, id) = p.coll \o id
    /\ (last.op \in KeyCalls /\ last.id = NilId)
            => /\ last.res = None
               /\ last.err = NoErr
               /\ last.reqs = 0

\* C38: after any sequence of Open and Close calls on a connection, each run
\* to completion and with any step of Open succeeding or failing, the
\* connection holds a cluster handle if and only if it holds a bucket handle;
\* so IsOpen() true implies that GetBucket() is not nil.
C38_ClusterIffBucket ==
    \A c \in ConnIds :
        /\ conns[c].Connection # 0 <=> conns[c].Bucket # 0
        /\ ConnectionIsOpen(conns[c]) => conns[c].Bucket # 0

\* C38 witness: an Open of an open connection failed after its connect, and
\* the connection holds neither handle.
C38_Witness ==
    /\ call.op = "Open"
    /\ call.before[call.c].Connection # 0
    /\ HasStep("OpenBucket")
    /\ call.err # NilErr
    /\ IsClosed(conns[call.c])

\* C39: whenever Persistence.IsOpen() is true, the connection the persistence
\* uses is open and the bucket handle the persistence captured is the
\* connection's current bucket handle.
C39_OpenedImpliesConnectionOpen ==
    pst.opened =>
        /\ pst.Connection # "nil"
        /\ ConnectionIsOpen(conns[pst.Connection])
        /\ pst.Bucket = conns[pst.Connection].Bucket

Created == {q \in 1..MaxProcs : up[q].pc = "created"}
Rejected == {q \in 1..MaxProcs : up[q].pc = "rejected"}

\* C40: of concurrent Create calls, through one or several persistences of
\* one collection, whose items carry the same non-empty id, at most one
\* succeeds under every interleaving; every other one returns an error, and
\* the stored document is the one the successful call wrote.
C40_AtMostOneCreateWins ==
    /\ \A q, r \in Created : up[q].id = up[r].id => q = r
    /\ \A q \in Rejected : \E r \in Created : up[r].id = up[q].id
    /\ \A q \in Created :
         store[GenerateBucketId(up[q].p, up[q].id)].body = up[q].buf
    /\ (last.op = "Create" /\ last.before.present) => last.err = ErrKeyExists

\* C40 witness: two callers with different records and different
\* persistences of the collection have finished, one of them rejected.
C40_Witness ==
    /\ Created = {2}
    /\ Rejected = {1}
    /\ up[1].p # up[2].p
    /\ up[1].id = up[2].id
    /\ up[1].data # up[2].data
    /\ last.err = ErrKeyExists

====
